---- MODULE Spec2Model ----
(***************************************************************************)
(* The depth ingestion pipeline of mdc:                                    *)
(*   producers -> depth_in -> DepthEventDispatcher -> depth_valid          *)
(*             -> BookProcessor -> book_out -> MarketEventLogger           *)
(* Every stage is one task that owns its state; a stage is suspended only  *)
(* in recv() and in send().await, so every action below runs a handler     *)
(* from one suspension point to the next.                                  *)
(***************************************************************************)
EXTENDS Integers, Sequences, FiniteSets, TLC

VARIABLES
    overflow_checks,            \* build profile: TRUE = `+` panics on overflow, FALSE = it wraps
    senders,                    \* live Sender handles of depth_in (the producers' clones, as one)
    script,                     \* events the producers of a scripted run still have to send
    reference,                  \* the exchange behind a consistent feed: its mutations, books, events
    depth_in,                   \* mpsc channel producers -> dispatcher
    received,                   \* history: events the dispatcher took from depth_in
    last_processed_update_id,   \* DepthEventDispatcher.last_processed_update_id : Option<u64>
    buffer,                     \* DepthEventDispatcher.buffer : BTreeMap<u64, DepthUpdate>
    dispatcher_pc,              \* where DepthEventDispatcher::run is suspended
    frame,                      \* locals of the handler suspended in output.send().await
    depth_valid,                \* mpsc channel dispatcher -> book processor
    forwarded,                  \* history: events the dispatcher sent into depth_valid
    order_book,                 \* BookProcessor.order_book : Option<OrderBook>
    bp_pc,                      \* where BookProcessor::run is suspended
    book_out,                   \* mpsc channel book processor -> logger
    emitted,                    \* history: book states the book processor sent into book_out
    price_book,                 \* an OrderBook driven directly: each BTreeMap as its (key, value) pairs in iteration order
    op,                         \* history: the last operation applied to `price_book`
    stream,                     \* one MarketEventStream: where run is, the event in hand, the session's error
    trade_channel,              \* mpsc channel trade stream -> logger, with what the logger took and printed
    price_channel,              \* mpsc channel price stream -> logger, with what the logger took and printed
    logger_pc                   \* where MarketEventLogger::run is

vars == << price_book, op, stream, trade_channel, price_channel, logger_pc, overflow_checks, senders, script, reference, depth_in, received, last_processed_update_id, buffer,
           dispatcher_pc, frame, depth_valid, forwarded, order_book, bp_pc, book_out, emitted >>

----------------------------------------------------------------------------
(* Bounds of the model *)

\* stand-in for u64::MAX: larger than every other sequence number of the model
U64Max == 1000
\* sequence numbers the producers draw from: 0..MaxId
MaxId == 4
\* number of events the producers put into depth_in in one run
MaxEvents == 3
\* capacity of each mpsc channel (the program uses 100)
Capacity == 2
\* scripted runs: longest chain of contiguous updates, largest first snapshot of a chain
ChainLen == 3
ChainStart == 1
\* scripted runs: number of updates sent between two snapshots
ResyncUpdates == 2
\* consistent feeds: number of mutations of the exchange's book, largest quantity of a level
FeedLen == 4
MaxQty == 2
\* the book processor on its own: events its source sends, longest bid list of an event
MaxSourceEvents == 2
MaxEntries == 2

----------------------------------------------------------------------------
(* Option<T> *)

None == << >>
Some(x) == << x >>
unwrap(o) == o[1]

(* u64 arithmetic: `x + 1` *)

Overflows(x) == x = U64Max
WrappingAdd1(x) == IF x = U64Max THEN 0 ELSE x + 1

----------------------------------------------------------------------------
(* models.rs: the events *)

DepthEntry(p, q) == [price |-> p, quantity |-> q]

DepthSnapshot(s, b, a) ==
    [type |-> "DepthSnapshot", last_update_id |-> s, bids |-> b, asks |-> a]

DepthUpdate(U, u, b, a) ==
    [type |-> "DepthUpdate", first_update_id |-> U, last_update_id |-> u, bids |-> b, asks |-> a]

TradeEvent == [type |-> "TradeEvent"]
PriceUpdate == [type |-> "PriceUpdate"]

\* the sequence number of a forwarded event
Sequence(e) == e.last_update_id

IsUpdate(e) == e.type = "DepthUpdate"
IsSnapshot(e) == e.type = "DepthSnapshot"
Last(seq) == seq[Len(seq)]

----------------------------------------------------------------------------
(* order_book.rs *)

EmptyMap == [p \in {} |-> 0]

\* BTreeMap::insert
MapInsert(m, k, v) == [x \in (DOMAIN m) \cup {k} |-> IF x = k THEN v ELSE m[x]]
\* BTreeMap::remove
MapRemove(m, k) == [x \in (DOMAIN m) \ {k} |-> m[x]]

RECURSIVE InsertAll(_, _)
\* the `for entry in &snapshot.bids { bids.insert(..) }` loops of OrderBook::new
InsertAll(m, entries) ==
    IF entries = << >> THEN m
    ELSE InsertAll(MapInsert(m, Head(entries).price, Head(entries).quantity), Tail(entries))

OrderBookNew(snapshot) ==
    [bids |-> InsertAll(EmptyMap, snapshot.bids), asks |-> InsertAll(EmptyMap, snapshot.asks)]

\* apply_update without the `quantity == 0.0` branch: a zero quantity is stored
apply_update_stores_zero(book, side, price, quantity) ==
    LET m == IF side = "Bid" THEN book.bids ELSE book.asks
        m2 == MapInsert(m, price, quantity)
    IN IF side = "Bid" THEN [book EXCEPT !.bids = m2] ELSE [book EXCEPT !.asks = m2]

\* apply_update that creates a missing level but does not overwrite an existing one
apply_update_or_insert(book, side, price, quantity) ==
    LET m == IF side = "Bid" THEN book.bids ELSE book.asks
        m2 == IF quantity = 0 THEN MapRemove(m, price)
              ELSE IF price \in DOMAIN m THEN m ELSE MapInsert(m, price, quantity)
    IN IF side = "Bid" THEN [book EXCEPT !.bids = m2] ELSE [book EXCEPT !.asks = m2]

\* OrderBook::apply_update on the map the price key selects
apply_update(book, side, price, quantity) ==
    LET m == IF side = "Bid" THEN book.bids ELSE book.asks
        m2 == IF quantity = 0 THEN MapRemove(m, price) ELSE MapInsert(m, price, quantity)
    IN IF side = "Bid" THEN [book EXCEPT !.bids = m2] ELSE [book EXCEPT !.asks = m2]

RECURSIVE ApplyAll(_, _, _)
\* the `for bid in update.bids` / `for ask in update.asks` loops of BookProcessor::process_update
ApplyAll(book, side, entries) ==
    IF entries = << >> THEN book
    ELSE ApplyAll(apply_update(book, side, Head(entries).price, Head(entries).quantity),
                  side, Tail(entries))

\* BookProcessor::process_update on an initialized book: bids first, then asks
bp_process_update(book, update) ==
    ApplyAll(ApplyAll(book, "Bid", update.bids), "Ask", update.asks)

----------------------------------------------------------------------------
(* depth_event_dispatcher.rs *)

NoFrame == << >>

MinKey(keys) == CHOOSE k \in keys : \A j \in keys : k <= j

\* process_update that keeps the entry already stored under the key (entry().or_insert)
process_update_keeps_first(buf, update) ==
    IF update.last_update_id \in DOMAIN buf THEN buf
    ELSE MapInsert(buf, update.last_update_id, update)

\* DepthEventDispatcher::process_update: insert under the key last_update_id
process_update(buf, update) == MapInsert(buf, update.last_update_id, update)

\* process_snapshot without the stale test of lines 79-82
process_snapshot_forward_all(lp, snapshot) ==
    [forward |-> TRUE, last_processed_update_id |-> Some(snapshot.last_update_id)]

\* process_snapshot with `<` for the `<=` of line 79
process_snapshot_strict(lp, snapshot) ==
    IF lp = None
    THEN [forward |-> TRUE, last_processed_update_id |-> Some(snapshot.last_update_id)]
    ELSE IF snapshot.last_update_id < unwrap(lp)
    THEN [forward |-> FALSE, last_processed_update_id |-> lp]
    ELSE [forward |-> TRUE, last_processed_update_id |-> Some(snapshot.last_update_id)]

\* process_snapshot that stores the snapshot's id before the stale test of line 79
process_snapshot_stores_first(lp, snapshot) ==
    IF lp = None
    THEN [forward |-> TRUE, last_processed_update_id |-> Some(snapshot.last_update_id)]
    ELSE IF snapshot.last_update_id <= unwrap(lp)
    THEN [forward |-> FALSE, last_processed_update_id |-> Some(snapshot.last_update_id)]
    ELSE [forward |-> TRUE, last_processed_update_id |-> Some(snapshot.last_update_id)]

\* the decision of DepthEventDispatcher::process_snapshot
process_snapshot(lp, snapshot) ==
    IF lp = None
    THEN [forward |-> TRUE, last_processed_update_id |-> Some(snapshot.last_update_id)]
    ELSE IF snapshot.last_update_id <= unwrap(lp)
    THEN [forward |-> FALSE, last_processed_update_id |-> lp]
    ELSE [forward |-> TRUE, last_processed_update_id |-> Some(snapshot.last_update_id)]

\* the acceptance test with a lower bound that is off by one: a frame may start at expected + 1
Accepts_gap(depth_update, expected_first_update_id) ==
    /\ depth_update.first_update_id <= expected_first_update_id + 1
    /\ expected_first_update_id < depth_update.last_update_id

\* the acceptance test without its lower bound
Accepts_no_lower(depth_update, expected_first_update_id) ==
    expected_first_update_id < depth_update.last_update_id

\* the stale test with `<` for `<=`
IsStale_strict(last_update_id, local_last) == last_update_id < local_last

\* the stale test of the drain loop (line 118)
IsStale(last_update_id, local_last) == last_update_id <= local_last

\* the acceptance test with `<=` for the `<` of its upper bound: a frame may end at expected
Accepts_ends_at_expected(depth_update, expected_first_update_id) ==
    /\ depth_update.first_update_id <= expected_first_update_id
    /\ expected_first_update_id <= depth_update.last_update_id

\* the acceptance test of the drain loop (line 123)
Accepts(depth_update, expected_first_update_id) ==
    /\ depth_update.first_update_id <= expected_first_update_id
    /\ expected_first_update_id < depth_update.last_update_id

RECURSIVE ScanBuffer_skips(_, _, _, _, _, _)
\* the loop with `continue` for the `break` of line 124: an entry that fails the acceptance
\* test is passed over and the scan goes on with the next key
ScanBuffer_skips(checks, buf, keys, local_last, expected_first_update_id, processed_keys) ==
    IF keys = {}
    THEN [at |-> "end", processed_keys |-> processed_keys, keys |-> {},
          expected_first_update_id |-> expected_first_update_id, event |-> NoFrame]
    ELSE LET last_update_id == MinKey(keys)
             depth_update == buf[last_update_id]
         IN IF IsStale(last_update_id, local_last)
            THEN ScanBuffer_skips(checks, buf, keys \ {last_update_id}, local_last,
                                  expected_first_update_id, processed_keys \cup {last_update_id})
            ELSE IF ~Accepts(depth_update, expected_first_update_id)
            THEN ScanBuffer_skips(checks, buf, keys \ {last_update_id}, local_last,
                                  expected_first_update_id, processed_keys)
            ELSE IF Overflows(depth_update.last_update_id) /\ checks
            THEN [at |-> "panic", processed_keys |-> processed_keys \cup {last_update_id},
                  keys |-> keys, expected_first_update_id |-> expected_first_update_id,
                  event |-> NoFrame]
            ELSE [at |-> "send", processed_keys |-> processed_keys \cup {last_update_id},
                  keys |-> keys \ {last_update_id},
                  expected_first_update_id |-> WrappingAdd1(depth_update.last_update_id),
                  event |-> depth_update]

RECURSIVE ScanBuffer_stops_at_stale(_, _, _, _, _, _)
\* the loop with `break` for the `continue` of line 120: the scan ends at the first stale entry
ScanBuffer_stops_at_stale(checks, buf, keys, local_last, expected_first_update_id, processed_keys) ==
    IF keys = {}
    THEN [at |-> "end", processed_keys |-> processed_keys, keys |-> {},
          expected_first_update_id |-> expected_first_update_id, event |-> NoFrame]
    ELSE LET last_update_id == MinKey(keys)
             depth_update == buf[last_update_id]
         IN IF IsStale(last_update_id, local_last)
            THEN [at |-> "end", processed_keys |-> processed_keys \cup {last_update_id},
                  keys |-> keys \ {last_update_id},
                  expected_first_update_id |-> expected_first_update_id, event |-> NoFrame]
            ELSE IF ~Accepts(depth_update, expected_first_update_id)
            THEN [at |-> "end", processed_keys |-> processed_keys, keys |-> keys,
                  expected_first_update_id |-> expected_first_update_id, event |-> NoFrame]
            ELSE IF Overflows(depth_update.last_update_id) /\ checks
            THEN [at |-> "panic", processed_keys |-> processed_keys \cup {last_update_id},
                  keys |-> keys, expected_first_update_id |-> expected_first_update_id,
                  event |-> NoFrame]
            ELSE [at |-> "send", processed_keys |-> processed_keys \cup {last_update_id},
                  keys |-> keys \ {last_update_id},
                  expected_first_update_id |-> WrappingAdd1(depth_update.last_update_id),
                  event |-> depth_update]

RECURSIVE ScanBuffer(_, _, _, _, _, _)
\* the `for` loop of process_buffer from iterator position `keys` on, up to the next
\* output.send().await, the break, the end of the map or an overflow panic
ScanBuffer(checks, buf, keys, local_last, expected_first_update_id, processed_keys) ==
    IF keys = {}
    THEN [at |-> "end", processed_keys |-> processed_keys, keys |-> {},
          expected_first_update_id |-> expected_first_update_id, event |-> NoFrame]
    ELSE LET last_update_id == MinKey(keys)
             depth_update == buf[last_update_id]
         IN IF IsStale(last_update_id, local_last)
            THEN ScanBuffer(checks, buf, keys \ {last_update_id}, local_last,
                            expected_first_update_id, processed_keys \cup {last_update_id})
            ELSE IF ~Accepts(depth_update, expected_first_update_id)
            THEN [at |-> "end", processed_keys |-> processed_keys, keys |-> keys,
                  expected_first_update_id |-> expected_first_update_id, event |-> NoFrame]
            ELSE IF Overflows(depth_update.last_update_id) /\ checks
            THEN [at |-> "panic", processed_keys |-> processed_keys \cup {last_update_id},
                  keys |-> keys, expected_first_update_id |-> expected_first_update_id,
                  event |-> NoFrame]
            ELSE [at |-> "send", processed_keys |-> processed_keys \cup {last_update_id},
                  keys |-> keys \ {last_update_id},
                  expected_first_update_id |-> WrappingAdd1(depth_update.last_update_id),
                  event |-> depth_update]

\* a removal that remembers only the key marked last instead of pushing each one
RemoveKeys_last_only(buf, processed_keys) ==
    IF processed_keys = {} THEN buf
    ELSE LET last == CHOOSE k \in processed_keys : \A j \in processed_keys : j <= k
         IN [k \in (DOMAIN buf) \ {last} |-> buf[k]]

\* the removal loop that ends process_buffer
RemoveKeys(buf, processed_keys) == [k \in (DOMAIN buf) \ processed_keys |-> buf[k]]

\* AfterScan without line 131: an accepted update does not advance last_processed_update_id
AfterScan_keeps_last(r, lp, buf, local_last) ==
    CASE r.at = "end" ->
            [pc |-> "recv", last_processed_update_id |-> lp,
             buffer |-> RemoveKeys(buf, r.processed_keys), frame |-> NoFrame]
      [] r.at = "panic" ->
            [pc |-> "panicked", last_processed_update_id |-> lp, buffer |-> buf,
             frame |-> NoFrame]
      [] r.at = "send" ->
            [pc |-> "send_update",
             last_processed_update_id |-> lp,
             buffer |-> buf,
             frame |-> [event |-> r.event, keys |-> r.keys, local_last |-> local_last,
                        expected_first_update_id |-> r.expected_first_update_id,
                        processed_keys |-> r.processed_keys]]

\* the dispatcher's state where the scan stopped
AfterScan(r, lp, buf, local_last) ==
    CASE r.at = "end" ->
            [pc |-> "recv", last_processed_update_id |-> lp,
             buffer |-> RemoveKeys(buf, r.processed_keys), frame |-> NoFrame]
      [] r.at = "panic" ->
            [pc |-> "panicked", last_processed_update_id |-> lp, buffer |-> buf,
             frame |-> NoFrame]
      [] r.at = "send" ->
            [pc |-> "send_update",
             last_processed_update_id |-> Some(r.event.last_update_id),
             buffer |-> buf,
             frame |-> [event |-> r.event, keys |-> r.keys, local_last |-> local_last,
                        expected_first_update_id |-> r.expected_first_update_id,
                        processed_keys |-> r.processed_keys]]

\* process_buffer that reads an unset last_processed_update_id as 0 instead of returning
process_buffer_unset_as_zero(checks, lp, buf) ==
    LET last == IF lp = None THEN 0 ELSE unwrap(lp)
    IN IF DOMAIN buf = {}
       THEN [pc |-> "recv", last_processed_update_id |-> lp, buffer |-> buf, frame |-> NoFrame]
       ELSE AfterScan(ScanBuffer(checks, buf, DOMAIN buf, last, WrappingAdd1(last), {}),
                      lp, buf, last)

\* process_buffer that, with last_processed_update_id unset, forwards the lowest buffered update
process_buffer_forwards_unset(checks, lp, buf) ==
    IF DOMAIN buf = {}
    THEN [pc |-> "recv", last_processed_update_id |-> lp, buffer |-> buf, frame |-> NoFrame]
    ELSE IF lp = None
    THEN LET k == MinKey(DOMAIN buf)
         IN [pc |-> "send_update", last_processed_update_id |-> Some(k), buffer |-> buf,
             frame |-> [event |-> buf[k], keys |-> {}, local_last |-> k,
                        expected_first_update_id |-> WrappingAdd1(k), processed_keys |-> {k}]]
    ELSE IF Overflows(unwrap(lp)) /\ checks
    THEN [pc |-> "panicked", last_processed_update_id |-> lp, buffer |-> buf, frame |-> NoFrame]
    ELSE AfterScan(ScanBuffer(checks, buf, DOMAIN buf, unwrap(lp), WrappingAdd1(unwrap(lp)), {}),
                   lp, buf, unwrap(lp))

\* process_buffer whose stale test is `u < expected_first_update_id` instead of `u <= L`
process_buffer_stale_below_expected(checks, lp, buf) ==
    IF lp = None
    THEN [pc |-> "recv", last_processed_update_id |-> lp, buffer |-> buf, frame |-> NoFrame]
    ELSE IF DOMAIN buf = {}
    THEN [pc |-> "recv", last_processed_update_id |-> lp, buffer |-> buf, frame |-> NoFrame]
    ELSE IF Overflows(unwrap(lp)) /\ checks
    THEN [pc |-> "panicked", last_processed_update_id |-> lp, buffer |-> buf, frame |-> NoFrame]
    ELSE AfterScan(ScanBuffer(checks, buf, DOMAIN buf, WrappingAdd1(unwrap(lp)) - 1,
                              WrappingAdd1(unwrap(lp)), {}),
                   lp, buf, WrappingAdd1(unwrap(lp)) - 1)

\* DepthEventDispatcher::process_buffer from its entry to its first suspension or its return
process_buffer(checks, lp, buf) ==
    IF lp = None
    THEN [pc |-> "recv", last_processed_update_id |-> lp, buffer |-> buf, frame |-> NoFrame]
    ELSE IF DOMAIN buf = {}
    THEN [pc |-> "recv", last_processed_update_id |-> lp, buffer |-> buf, frame |-> NoFrame]
    ELSE IF Overflows(unwrap(lp)) /\ checks
    THEN [pc |-> "panicked", last_processed_update_id |-> lp, buffer |-> buf, frame |-> NoFrame]
    ELSE AfterScan(ScanBuffer(checks, buf, DOMAIN buf, unwrap(lp), WrappingAdd1(unwrap(lp)), {}),
                   lp, buf, unwrap(lp))

\* process_buffer that leaves its loop after the first update it forwards
resume_buffer_one_per_drain(checks, lp, buf, fr) ==
    [pc |-> "recv", last_processed_update_id |-> lp,
     buffer |-> RemoveKeys(buf, fr.processed_keys), frame |-> NoFrame]

\* process_buffer resumed after the send of frame.event completed
resume_buffer(checks, lp, buf, fr) ==
    AfterScan(ScanBuffer(checks, buf, fr.keys, fr.local_last, fr.expected_first_update_id,
                         fr.processed_keys),
              lp, buf, fr.local_last)

\* the arms of the match with a process_snapshot that clears the buffer when it forwards
on_event_snapshot_clears(checks, lp, buf, event) ==
    CASE event.type = "DepthUpdate" ->
            process_buffer(checks, lp, process_update(buf, event))
      [] event.type = "DepthSnapshot" ->
            LET d == process_snapshot(lp, event)
            IN IF d.forward
               THEN [pc |-> "send_snapshot",
                     last_processed_update_id |-> d.last_processed_update_id,
                     buffer |-> EmptyMap,
                     frame |-> [event |-> event, keys |-> {}, local_last |-> 0,
                                expected_first_update_id |-> 0, processed_keys |-> {}]]
               ELSE process_buffer(checks, d.last_processed_update_id, buf)
      [] OTHER ->
            [pc |-> "recv", last_processed_update_id |-> lp, buffer |-> buf, frame |-> NoFrame]

\* the arms of the match with a catch-all arm that passes the event on to the output
on_event_forwards_other(checks, lp, buf, event) ==
    CASE event.type = "DepthUpdate" ->
            process_buffer(checks, lp, process_update(buf, event))
      [] event.type = "DepthSnapshot" ->
            LET d == process_snapshot(lp, event)
            IN IF d.forward
               THEN [pc |-> "send_snapshot",
                     last_processed_update_id |-> d.last_processed_update_id,
                     buffer |-> buf,
                     frame |-> [event |-> event, keys |-> {}, local_last |-> 0,
                                expected_first_update_id |-> 0, processed_keys |-> {}]]
               ELSE process_buffer(checks, d.last_processed_update_id, buf)
      [] OTHER ->
            [pc |-> "send_snapshot", last_processed_update_id |-> lp, buffer |-> buf,
             frame |-> [event |-> event, keys |-> {}, local_last |-> 0,
                        expected_first_update_id |-> 0, processed_keys |-> {}]]

\* one arm of the match in DepthEventDispatcher::run, up to its first suspension
on_event(checks, lp, buf, event) ==
    CASE event.type = "DepthUpdate" ->
            process_buffer(checks, lp, process_update(buf, event))
      [] event.type = "DepthSnapshot" ->
            LET d == process_snapshot(lp, event)
            IN IF d.forward
               THEN [pc |-> "send_snapshot",
                     last_processed_update_id |-> d.last_processed_update_id,
                     buffer |-> buf,
                     frame |-> [event |-> event, keys |-> {}, local_last |-> 0,
                                expected_first_update_id |-> 0, processed_keys |-> {}]]
               ELSE process_buffer(checks, d.last_processed_update_id, buf)
      [] OTHER ->
            [pc |-> "recv", last_processed_update_id |-> lp, buffer |-> buf, frame |-> NoFrame]

SetDispatcher(r) ==
    /\ dispatcher_pc' = r.pc
    /\ last_processed_update_id' = r.last_processed_update_id
    /\ buffer' = r.buffer
    /\ frame' = r.frame

\* the receiver of depth_valid is gone once the book processor's task has ended
DepthValidClosed == bp_pc \in {"panicked", "done"}

\* `while let Some(event) = self.input.recv().await { match event { .. } }`
DispatcherRecv ==
    /\ dispatcher_pc = "recv"
    /\ depth_in # << >>
    /\ depth_in' = Tail(depth_in)
    /\ received' = Append(received, Head(depth_in))
    /\ SetDispatcher(on_event(overflow_checks, last_processed_update_id, buffer, Head(depth_in)))
    /\ UNCHANGED << price_book, op, stream, trade_channel, price_channel, logger_pc, overflow_checks, senders, script, reference, depth_valid, forwarded, order_book, bp_pc,
                    book_out, emitted >>

\* `self.output.send(MarketEvent::DepthSnapshot(..)).await.expect(..)`, then process_buffer
DispatcherSendSnapshot ==
    /\ dispatcher_pc = "send_snapshot"
    /\ IF DepthValidClosed
       THEN /\ dispatcher_pc' = "panicked"
            /\ UNCHANGED << last_processed_update_id, buffer, frame, depth_valid, forwarded >>
       ELSE /\ Len(depth_valid) < Capacity
            /\ depth_valid' = Append(depth_valid, frame.event)
            /\ forwarded' = Append(forwarded, frame.event)
            /\ SetDispatcher(process_buffer(overflow_checks, last_processed_update_id, buffer))
    /\ UNCHANGED << price_book, op, stream, trade_channel, price_channel, logger_pc, overflow_checks, senders, script, reference, depth_in, received, order_book, bp_pc,
                    book_out, emitted >>

\* a send of the update that gives up on a full queue (try_send): the update is lost and the
\* loop goes on
DispatcherSendUpdate_drops_when_full ==
    /\ dispatcher_pc = "send_update"
    /\ IF DepthValidClosed
       THEN /\ dispatcher_pc' = "panicked"
            /\ UNCHANGED << last_processed_update_id, buffer, frame, depth_valid, forwarded >>
       ELSE /\ IF Len(depth_valid) < Capacity
               THEN /\ depth_valid' = Append(depth_valid, frame.event)
                    /\ forwarded' = Append(forwarded, frame.event)
               ELSE UNCHANGED << depth_valid, forwarded >>
            /\ SetDispatcher(resume_buffer(overflow_checks, last_processed_update_id, buffer, frame))
    /\ UNCHANGED << price_book, op, stream, trade_channel, price_channel, logger_pc, overflow_checks, senders, script, reference, depth_in, received, order_book,
                    bp_pc, book_out, emitted >>

\* `self.output.send(MarketEvent::DepthUpdate(..)).await.expect(..)`, then the loop goes on
DispatcherSendUpdate ==
    /\ dispatcher_pc = "send_update"
    /\ IF DepthValidClosed
       THEN /\ dispatcher_pc' = "panicked"
            /\ UNCHANGED << last_processed_update_id, buffer, frame, depth_valid, forwarded >>
       ELSE /\ Len(depth_valid) < Capacity
            /\ depth_valid' = Append(depth_valid, frame.event)
            /\ forwarded' = Append(forwarded, frame.event)
            /\ SetDispatcher(resume_buffer(overflow_checks, last_processed_update_id, buffer, frame))
    /\ UNCHANGED << price_book, op, stream, trade_channel, price_channel, logger_pc, overflow_checks, senders, script, reference, depth_in, received, order_book, bp_pc,
                    book_out, emitted >>

\* a dispatcher that keeps waiting in recv() although every sender of depth_in is dropped
DispatcherClose_keeps_waiting ==
    /\ dispatcher_pc = "recv"
    /\ depth_in = << >>
    /\ senders = 0
    /\ UNCHANGED vars

\* `self.input.recv().await` returns None: every sender of depth_in is dropped and the queue
\* is drained; run returns and drops the dispatcher with its sender of depth_valid
DispatcherClose ==
    /\ dispatcher_pc = "recv"
    /\ depth_in = << >>
    /\ senders = 0
    /\ dispatcher_pc' = "done"
    /\ UNCHANGED << price_book, op, stream, trade_channel, price_channel, logger_pc, overflow_checks, senders, script, reference, depth_in, received,
                    last_processed_update_id, buffer, frame, depth_valid, forwarded,
                    order_book, bp_pc, book_out, emitted >>

----------------------------------------------------------------------------
(* book_processor.rs *)

\* process_snapshot that inserts the snapshot's levels into the book it holds
bp_process_snapshot_merges(book, snapshot) ==
    IF book = None THEN Some(OrderBookNew(snapshot))
    ELSE Some([bids |-> InsertAll(unwrap(book).bids, snapshot.bids),
               asks |-> InsertAll(unwrap(book).asks, snapshot.asks)])

\* BookProcessor::process_snapshot: the book is built anew from the snapshot
bp_process_snapshot(book, snapshot) == Some(OrderBookNew(snapshot))

\* the match with a process_update that starts from an empty book when none is held
bp_on_event_empty_book(book, event) ==
    CASE event.type = "DepthUpdate" ->
            [pc |-> "send",
             order_book |-> Some(bp_process_update(
                                IF book = None THEN [bids |-> EmptyMap, asks |-> EmptyMap]
                                ELSE unwrap(book), event))]
      [] event.type = "DepthSnapshot" ->
            [pc |-> "send", order_book |-> bp_process_snapshot(book, event)]
      [] OTHER ->
            [pc |-> "recv", order_book |-> book]

\* one arm of the match in BookProcessor::run, up to send_current_state
bp_on_event(book, event) ==
    CASE event.type = "DepthUpdate" ->
            IF book = None
            THEN [pc |-> "panicked", order_book |-> book]
            ELSE [pc |-> "send", order_book |-> Some(bp_process_update(unwrap(book), event))]
      [] event.type = "DepthSnapshot" ->
            [pc |-> "send", order_book |-> bp_process_snapshot(book, event)]
      [] OTHER ->
            [pc |-> "recv", order_book |-> book]

\* `while let Some(event) = self.input.recv().await { match event { .. } }` up to the send
BookProcessorRecv ==
    /\ bp_pc = "recv"
    /\ depth_valid # << >>
    /\ depth_valid' = Tail(depth_valid)
    /\ bp_pc' = bp_on_event(order_book, Head(depth_valid)).pc
    /\ order_book' = bp_on_event(order_book, Head(depth_valid)).order_book
    /\ UNCHANGED << price_book, op, stream, trade_channel, price_channel, logger_pc, overflow_checks, senders, script, reference, depth_in, received,
                    last_processed_update_id, buffer, dispatcher_pc, frame, forwarded,
                    book_out, emitted >>

\* send_current_state that shares the live book: every state of the queue shows the book as
\* it is at the latest send
send_current_state_shared(queue, book) == [i \in 1..(Len(queue) + 1) |-> unwrap(book)]

\* `self.output.send(order_book.clone())`: a copy of the book is appended to the queue
send_current_state(queue, book) == Append(queue, unwrap(book))

\* send_current_state that emits only a book that differs from the state emitted last
BookProcessorSend_skips_unchanged ==
    /\ bp_pc = "send"
    /\ Len(book_out) < Capacity
    /\ IF emitted # << >> /\ Last(emitted) = unwrap(order_book)
       THEN UNCHANGED << book_out, emitted >>
       ELSE /\ book_out' = send_current_state(book_out, order_book)
            /\ emitted' = send_current_state(emitted, order_book)
    /\ bp_pc' = "recv"
    /\ UNCHANGED << price_book, op, stream, trade_channel, price_channel, logger_pc, overflow_checks, senders, script, reference, depth_in, received,
                    last_processed_update_id, buffer, dispatcher_pc, frame, depth_valid,
                    forwarded, order_book >>

\* BookProcessor::send_current_state: `self.output.send(order_book.clone()).await`
BookProcessorSend ==
    /\ bp_pc = "send"
    /\ Len(book_out) < Capacity
    /\ book_out' = send_current_state(book_out, order_book)
    /\ emitted' = send_current_state(emitted, order_book)
    /\ bp_pc' = "recv"
    /\ UNCHANGED << price_book, op, stream, trade_channel, price_channel, logger_pc, overflow_checks, senders, script, reference, depth_in, received,
                    last_processed_update_id, buffer, dispatcher_pc, frame, depth_valid,
                    forwarded, order_book >>

\* `self.input.recv().await` returns None: the dispatcher's task ended and depth_valid is drained
BookProcessorClose ==
    /\ bp_pc = "recv"
    /\ depth_valid = << >>
    /\ dispatcher_pc \in {"panicked", "done"}
    /\ bp_pc' = "done"
    /\ UNCHANGED << price_book, op, stream, trade_channel, price_channel, logger_pc, overflow_checks, senders, script, reference, depth_in, received, last_processed_update_id,
                    buffer, dispatcher_pc, frame, depth_valid, forwarded, order_book,
                    book_out, emitted >>

----------------------------------------------------------------------------
(* market_event_logger.rs *)

\* `Some(book) = self.book_channel.recv() => { println!("{}", book); }`
LoggerRecv ==
    /\ logger_pc = "select"
    /\ book_out # << >>
    /\ book_out' = Tail(book_out)
    /\ UNCHANGED << price_book, op, stream, trade_channel, price_channel, logger_pc, overflow_checks, senders, script, reference, depth_in, received, last_processed_update_id,
                    buffer, dispatcher_pc, frame, depth_valid, forwarded, order_book, bp_pc,
                    emitted >>

----------------------------------------------------------------------------
(* The producers: market_event_stream.rs and depth_snapshot_stream.rs *)

Ids == 0..MaxId

\* runs whose producers are not tied to an exchange book
NoReference == [mutations |-> << >>, books |-> << >>, events |-> {}]

\* sequence numbers a frame can end at or a snapshot can carry: the small ones and u64::MAX
EndIds == Ids \cup {U64Max}

\* what the dispatcher may find in depth_in: any snapshot, any update (the parsers do not
\* relate U and u), and the other two variants of MarketEvent
AnyEvents ==
    {DepthSnapshot(s, << >>, << >>) : s \in EndIds}
    \cup {DepthUpdate(U, u, << >>, << >>) : U \in Ids, u \in EndIds}
    \cup {TradeEvent, PriceUpdate}

\* the receiver of depth_in is gone once the dispatcher's task has ended
DepthInClosed == dispatcher_pc \in {"panicked", "done"}

\* `self.event_queue.send(..).await` / `self.output.send(MarketEvent::DepthSnapshot(..)).await`
\* of a producer that may send anything
ProducerSend(event) ==
    /\ senders > 0
    /\ ~DepthInClosed
    /\ Len(received) + Len(depth_in) < MaxEvents
    /\ Len(depth_in) < Capacity
    /\ depth_in' = Append(depth_in, event)
    /\ UNCHANGED << price_book, op, stream, trade_channel, price_channel, logger_pc, overflow_checks, senders, script, reference, received, last_processed_update_id, buffer,
                    dispatcher_pc, frame, depth_valid, forwarded, order_book, bp_pc,
                    book_out, emitted >>

\* the same send of producers that follow a script
ScriptSend ==
    /\ senders > 0
    /\ ~DepthInClosed
    /\ script # << >>
    /\ Len(depth_in) < Capacity
    /\ depth_in' = Append(depth_in, Head(script))
    /\ script' = Tail(script)
    /\ UNCHANGED << price_book, op, stream, trade_channel, price_channel, logger_pc, overflow_checks, senders, reference, received, last_processed_update_id, buffer,
                    dispatcher_pc, frame, depth_valid, forwarded, order_book, bp_pc,
                    book_out, emitted >>

----------------------------------------------------------------------------
(* The pipeline as MDCServer::start wires it *)

InitPipeline ==
    /\ price_book = [bids |-> << >>, asks |-> << >>]
    /\ op = << >>
    /\ stream = [pc |-> "connect", event |-> << >>, error |-> << >>, failed |-> {}]
    /\ trade_channel = [queue |-> << >>, closed |-> FALSE, taken |-> 0, logged |-> 0]
    /\ price_channel = [queue |-> << >>, closed |-> FALSE, taken |-> 0, logged |-> 0]
    /\ logger_pc = "select"
    /\ overflow_checks \in BOOLEAN
    /\ senders = 1
    /\ depth_in = << >>
    /\ received = << >>
    /\ last_processed_update_id = None
    /\ buffer = EmptyMap
    /\ dispatcher_pc = "recv"
    /\ frame = NoFrame
    /\ depth_valid = << >>
    /\ forwarded = << >>
    /\ order_book = None
    /\ bp_pc = "recv"
    /\ book_out = << >>
    /\ emitted = << >>

Stages ==
    \/ DispatcherRecv
    \/ DispatcherSendSnapshot
    \/ DispatcherSendUpdate
    \/ BookProcessorRecv
    \/ BookProcessorSend
    \/ LoggerRecv

(* Spec: producers that may send any event in any order *)

Init ==
    /\ script = << >>
    /\ reference = NoReference
    /\ InitPipeline

Next ==
    \/ \E event \in AnyEvents : ProducerSend(event)
    \/ Stages
    \/ BookProcessorClose

Spec == Init /\ [][Next]_vars

----------------------------------------------------------------------------
(* Scripted producers: the events of one chosen input sequence, sent in its order *)

NextScript ==
    \/ ScriptSend
    \/ Stages

\* frames cover two or three sequence numbers
FrameWidths == {2, 3}

RECURSIVE Chain(_, _)
\* the contiguous updates that start at `first` and have the given widths
Chain(first, widths) ==
    IF widths = << >> THEN << >>
    ELSE << DepthUpdate(first, first + Head(widths) - 1, << >>, << >>) >>
         \o Chain(first + Head(widths), Tail(widths))

Orders(n) == {p \in [1..n -> 1..n] : \A i \in 1..n : \A j \in 1..n : p[i] = p[j] => i = j}

\* a snapshot S followed by the updates of `chain` in the order p
ChainScript(S, chain, p) ==
    << DepthSnapshot(S, << >>, << >>) >> \o [i \in 1..Len(chain) |-> chain[p[i]]]

\* a snapshot S followed by a permutation of a chain that starts at S + 1
ChainScripts ==
    UNION { UNION { {ChainScript(S, Chain(S + 1, widths), p) : p \in Orders(n), S \in 0..ChainStart} :
                    widths \in [1..n -> FrameWidths] } :
            n \in 1..ChainLen }

InitChain ==
    /\ script \in ChainScripts
    /\ reference = NoReference
    /\ InitPipeline

(* SpecChain: a snapshot, then the updates of a contiguous chain in any order *)
SpecChain == InitChain /\ [][NextScript]_vars

UpdateSeqs(n) == UNION {[1..m -> {DepthUpdate(U, u, << >>, << >>) : U \in Ids, u \in EndIds}] : m \in 0..n}

\* a snapshot, up to ResyncUpdates updates (first_update_id <= last_update_id), a newer snapshot
ResyncScripts ==
    { << DepthSnapshot(s0, << >>, << >>) >> \o ups \o << DepthSnapshot(s1, << >>, << >>) >> :
          s0 \in Ids, s1 \in EndIds,
          ups \in {x \in UpdateSeqs(ResyncUpdates) :
                      \A i \in 1..Len(x) : x[i].first_update_id <= x[i].last_update_id} }

InitResync ==
    /\ script \in {r \in ResyncScripts : r[1].last_update_id < r[Len(r)].last_update_id}
    /\ reference = NoReference
    /\ InitPipeline

NextResync ==
    \/ NextScript
    \/ BookProcessorClose

(* SpecResync: a snapshot, buffered and forwarded updates, then a newer snapshot *)
SpecResync == InitResync /\ [][NextResync]_vars

----------------------------------------------------------------------------
(* A consistent feed: the exchange's book evolves through the mutations h[1], h[2], .. *)
(* of a history h; mutation i sets one level to a quantity (0 deletes the level).      *)
(* A snapshot at s carries the exchange's book after mutation s; an update frame [U,u] *)
(* carries, for every level some mutation in U..u touches, its quantity after u.       *)

\* the level mutation i touches: bids and asks take turns
LevelAt(i) == IF i % 2 = 1 THEN [side |-> "Bid", price |-> 1] ELSE [side |-> "Ask", price |-> 2]

\* the quantity of a level after mutation s (0: the level is absent)
QtyAt(ref, s, level) ==
    LET touching == {i \in 1..s : ref[i].side = level.side /\ ref[i].price = level.price}
    IN IF touching = {} THEN 0
       ELSE ref[CHOOSE i \in touching : \A j \in touching : j <= i].quantity

\* every mutation touches its level and changes the book
ReferenceHistories ==
    {h \in [1..FeedLen -> [side : {"Bid", "Ask"}, price : {1, 2}, quantity : 0..MaxQty]] :
        \A i \in 1..FeedLen :
            /\ h[i].side = LevelAt(i).side
            /\ h[i].price = LevelAt(i).price
            /\ h[i].quantity # QtyAt(h, i - 1, LevelAt(i))}

\* the levels of one side that the mutations U..u touch
Touched(ref, U, u, side) == {ref[i].price : i \in {j \in U..u : ref[j].side = side}}

\* the exchange's book after mutation s
RefSide(ref, s, side) ==
    LET present == {p \in Touched(ref, 1, s, side) : QtyAt(ref, s, [side |-> side, price |-> p]) > 0}
    IN [p \in present |-> QtyAt(ref, s, [side |-> side, price |-> p])]

RefBook(ref, s) == [bids |-> RefSide(ref, s, "Bid"), asks |-> RefSide(ref, s, "Ask")]

RECURSIVE Ascending(_)
\* the elements of a set of prices as a sequence
Ascending(prices) ==
    IF prices = {} THEN << >>
    ELSE LET p == MinKey(prices) IN << p >> \o Ascending(prices \ {p})

\* the (price, quantity) list of one side of a snapshot at s
SnapshotEntries(ref, s, side) ==
    LET m == RefSide(ref, s, side)
        prices == Ascending(DOMAIN m)
    IN [i \in 1..Len(prices) |-> DepthEntry(prices[i], m[prices[i]])]

\* the (price, quantity) deltas of one side of the frame [U,u]
FrameEntries(ref, U, u, side) ==
    LET prices == Ascending(Touched(ref, U, u, side))
    IN [i \in 1..Len(prices) |->
            DepthEntry(prices[i], QtyAt(ref, u, [side |-> side, price |-> prices[i]]))]

FeedSnapshot(ref, s) ==
    DepthSnapshot(s, SnapshotEntries(ref, s, "Bid"), SnapshotEntries(ref, s, "Ask"))

FeedUpdate(ref, U, u) ==
    DepthUpdate(U, u, FrameEntries(ref, U, u, "Bid"), FrameEntries(ref, U, u, "Ask"))

\* what the producers of a consistent feed may send, in any order and any number of times:
\* every snapshot and every frame with first_update_id <= last_update_id
FeedEvents(ref) ==
    {FeedSnapshot(ref, s) : s \in 0..FeedLen}
    \cup UNION {{FeedUpdate(ref, U, u) : u \in U..FeedLen} : U \in 1..FeedLen}

\* the exchange of one run: its mutations, its book after each of them, the events of its feed
Exchange(h) ==
    [mutations |-> h,
     books |-> [s \in 0..FeedLen |-> RefBook(h, s)],
     events |-> FeedEvents(h)]

InitFeed ==
    /\ script = << >>
    /\ reference \in {Exchange(h) : h \in ReferenceHistories}
    /\ InitPipeline

\* a producer of the feed sends one of its events
FeedSend == \E event \in reference.events : ProducerSend(event)

NextFeed ==
    \/ FeedSend
    \/ Stages

(* SpecFeed: producers that send the snapshots and frames of one exchange book *)
SpecFeed == InitFeed /\ [][NextFeed]_vars

----------------------------------------------------------------------------
(* The book processor on its own, as its tests run it: a source sends events straight *)
(* into depth_valid, nothing filters them                                              *)

\* the lists of up to n (price, quantity) entries over the given prices; a price may repeat
EntryLists(prices, n) ==
    UNION {[1..m -> {DepthEntry(p, q) : p \in prices, q \in 0..MaxQty}] : m \in 0..n}

\* the ask lists of the source's events: empty, or the one level 3 deleted or set
AskLists == {<< >>} \cup {<< DepthEntry(3, q) >> : q \in {0, MaxQty}}

\* what an unfiltered source may send: any snapshot, any update, and another kind of event
\* (the book processor does not read the sequence numbers)
SourceEvents ==
    {DepthSnapshot(0, b, a) : b \in EntryLists({1, 2}, MaxEntries), a \in AskLists}
    \cup {DepthUpdate(0, 0, b, a) : b \in EntryLists({1, 2}, MaxEntries), a \in AskLists}
    \cup {TradeEvent}

\* `tx.send(event).await` of the holder of depth_valid's sender
SourceSend(event) ==
    /\ ~DepthValidClosed
    /\ Len(forwarded) < MaxSourceEvents
    /\ Len(depth_valid) < Capacity
    /\ depth_valid' = Append(depth_valid, event)
    /\ forwarded' = Append(forwarded, event)
    /\ UNCHANGED << price_book, op, stream, trade_channel, price_channel, logger_pc, overflow_checks, senders, script, reference, depth_in, received,
                    last_processed_update_id, buffer, dispatcher_pc, frame, order_book, bp_pc,
                    book_out, emitted >>

NextBook ==
    \/ \E event \in SourceEvents : SourceSend(event)
    \/ BookProcessorRecv
    \/ BookProcessorSend
    \/ LoggerRecv

\* no dispatcher runs here, so its build profile is left at one value
InitBook ==
    /\ Init
    /\ ~overflow_checks

(* SpecBook: the book processor fed by an unfiltered source *)
SpecBook == InitBook /\ [][NextBook]_vars

----------------------------------------------------------------------------
(* Closure: the producers drop their senders of depth_in *)

\* every clone of the sender of depth_in is dropped (the producers' tasks ended)
ProducersDrop ==
    /\ senders > 0
    /\ senders' = 0
    /\ UNCHANGED << price_book, op, stream, trade_channel, price_channel, logger_pc, overflow_checks, script, reference, depth_in, received,
                    last_processed_update_id, buffer, dispatcher_pc, frame, depth_valid,
                    forwarded, order_book, bp_pc, book_out, emitted >>

\* the chains of SpecChain, and a snapshot at u64::MAX followed by an update
CloseScripts ==
    ChainScripts
    \cup {<< DepthSnapshot(U64Max, << >>, << >>), DepthUpdate(0, 1, << >>, << >>) >>}

InitClose ==
    /\ script \in CloseScripts
    /\ reference = NoReference
    /\ InitPipeline

NextClose ==
    \/ ScriptSend
    \/ ProducersDrop
    \/ Stages
    \/ DispatcherClose
    \/ BookProcessorClose

\* every stage is a spawned task that the runtime polls whenever it can make a step, and the
\* consumer of book_out keeps receiving
FairStages ==
    /\ WF_vars(DispatcherRecv)
    /\ WF_vars(DispatcherSendSnapshot)
    /\ WF_vars(DispatcherSendUpdate)
    /\ WF_vars(DispatcherClose)
    /\ WF_vars(BookProcessorRecv)
    /\ WF_vars(BookProcessorSend)
    /\ WF_vars(BookProcessorClose)
    /\ WF_vars(LoggerRecv)

(* SpecClose: scripted producers that may end at any time, under fair scheduling *)
SpecClose == InitClose /\ [][NextClose]_vars /\ FairStages

----------------------------------------------------------------------------
(* Progress: scripted producers whose senders stay alive, as in MDCServer::start, under *)
(* fair scheduling of the three spawned stages                                          *)

\* the chains of SpecChain, and a snapshot at u64::MAX followed by two updates
LiveScripts ==
    ChainScripts
    \cup {<< DepthSnapshot(U64Max, << >>, << >>), DepthUpdate(0, 1, << >>, << >>),
             DepthUpdate(0, 2, << >>, << >>) >>}

InitLive ==
    /\ script \in LiveScripts
    /\ reference = NoReference
    /\ InitPipeline

\* the dispatcher, the book processor and the consumer of book_out are polled whenever they
\* can make a step
FairPipeline ==
    /\ WF_vars(DispatcherRecv)
    /\ WF_vars(DispatcherSendSnapshot)
    /\ WF_vars(DispatcherSendUpdate)
    /\ WF_vars(BookProcessorRecv)
    /\ WF_vars(BookProcessorSend)
    /\ WF_vars(LoggerRecv)

(* SpecLive: scripted producers and fairly scheduled stages *)
SpecLive == InitLive /\ [][NextScript]_vars /\ FairPipeline

----------------------------------------------------------------------------
(* Properties of the dispatcher's output, for arbitrary producers (Spec) *)

\* C1: every forwarded update that follows a forwarded event with sequence number L has
\* first_update_id <= L + 1 and L + 1 < last_update_id
C1_NoSkippedSequence ==
    \A i \in 2..Len(forwarded) :
        IsUpdate(forwarded[i]) =>
            /\ forwarded[i].first_update_id <= Sequence(forwarded[i - 1]) + 1
            /\ Sequence(forwarded[i - 1]) + 1 < forwarded[i].last_update_id

\* a snapshot, an update that follows it and an update that follows that update were forwarded
C1_Witness ==
    /\ Len(forwarded) = 3
    /\ IsSnapshot(forwarded[1])
    /\ IsUpdate(forwarded[2])
    /\ IsUpdate(forwarded[3])

\* the updates received so far, as the buffer holds them when nothing has been removed
RECURSIVE BufferOf(_)
BufferOf(events) ==
    IF events = << >> THEN EmptyMap
    ELSE LET before == BufferOf(SubSeq(events, 1, Len(events) - 1))
         IN IF IsUpdate(Last(events))
            THEN MapInsert(before, Last(events).last_update_id, Last(events))
            ELSE before

\* C2: the output begins with a snapshot, the first one received; while last_processed is
\* unset nothing is forwarded and every received update is only buffered
C2_BeginsWithSnapshot ==
    /\ forwarded # << >> =>
          /\ IsSnapshot(forwarded[1])
          /\ \E i \in 1..Len(received) :
                /\ received[i] = forwarded[1]
                /\ \A j \in 1..(i - 1) : ~IsSnapshot(received[j])
    /\ last_processed_update_id = None =>
          /\ forwarded = << >>
          /\ dispatcher_pc = "recv"
          /\ buffer = BufferOf(received)
    /\ (\A i \in 1..Len(received) : ~IsSnapshot(received[i])) => last_processed_update_id = None

\* two updates arrived before the first snapshot; the snapshot and one of them were forwarded
C2_Witness ==
    /\ Len(received) = 3
    /\ IsUpdate(received[1])
    /\ IsUpdate(received[2])
    /\ IsSnapshot(received[3])
    /\ Len(forwarded) = 2
    /\ forwarded[1] = received[3]

\* C3: the sequence numbers of the forwarded events are strictly increasing
C3_StrictlyIncreasing ==
    \A i \in 1..Len(forwarded) : \A j \in 1..Len(forwarded) :
        i < j => Sequence(forwarded[i]) < Sequence(forwarded[j])

\* a snapshot, an update and a resync snapshot were forwarded
C3_Witness ==
    /\ Len(forwarded) = 3
    /\ IsSnapshot(forwarded[1])
    /\ IsUpdate(forwarded[2])
    /\ IsSnapshot(forwarded[3])

\* C4 as stated: a forwarded update that directly follows a forwarded update starts at
\* prev_u + 1
C4_Original_ExactSuccessor ==
    \A i \in 2..Len(forwarded) :
        (IsUpdate(forwarded[i]) /\ IsUpdate(forwarded[i - 1])) =>
            forwarded[i].first_update_id = forwarded[i - 1].last_update_id + 1

\* C4 amended: a forwarded update that directly follows a forwarded update starts at
\* prev_u + 1 or before it (overlapping frames are accepted)
C4_StartsAtOrBeforeSuccessor ==
    \A i \in 2..Len(forwarded) :
        (IsUpdate(forwarded[i]) /\ IsUpdate(forwarded[i - 1])) =>
            forwarded[i].first_update_id <= forwarded[i - 1].last_update_id + 1

\* an update that overlaps the update forwarded before it was forwarded
C4_Witness ==
    \E i \in 2..Len(forwarded) :
        /\ IsUpdate(forwarded[i])
        /\ IsUpdate(forwarded[i - 1])
        /\ forwarded[i].first_update_id <= forwarded[i - 1].last_update_id

\* C5: however often an update is delivered, at most one forwarded event carries its
\* sequence number: no two forwarded events share a sequence number
C5_AtMostOncePerSequence ==
    \A u \in {Sequence(forwarded[i]) : i \in 1..Len(forwarded)} :
        Cardinality({i \in 1..Len(forwarded) : Sequence(forwarded[i]) = u}) = 1

\* the same update was received twice, everything received was handled, and it was forwarded
C5_Witness ==
    /\ dispatcher_pc = "recv"
    /\ \E i \in 1..Len(received) : \E j \in 1..Len(received) :
          /\ i < j
          /\ IsUpdate(received[i])
          /\ received[i] = received[j]
          /\ \E k \in 1..Len(forwarded) : forwarded[k] = received[i]

\* C6: a drain marks every update with u <= last_processed for removal and removes it when it
\* ends, never forwards one, and forwards only updates whose u is greater than the
\* last_processed it started from and than the sequence number forwarded before
C6_StaleUpdatesDiscarded ==
    /\ (dispatcher_pc = "recv" /\ last_processed_update_id # None) =>
          \A k \in DOMAIN buffer : k > unwrap(last_processed_update_id)
    /\ dispatcher_pc = "send_update" =>
          /\ frame.event.last_update_id > frame.local_last
          /\ frame.event.last_update_id > Sequence(Last(forwarded))
          /\ \A k \in DOMAIN buffer : k <= frame.local_last => k \in frame.processed_keys
    /\ \A i \in 2..Len(forwarded) :
          IsUpdate(forwarded[i]) => forwarded[i].last_update_id > Sequence(forwarded[i - 1])

\* an update whose u equals the forwarded snapshot's id arrived after it, was not forwarded
\* and is no longer buffered
C6_Witness ==
    /\ dispatcher_pc = "recv"
    /\ Len(received) >= 2
    /\ Len(forwarded) = 1
    /\ IsUpdate(Last(received))
    /\ Last(received).last_update_id = Sequence(forwarded[1])
    /\ DOMAIN buffer = {}

\* the dispatcher is about to receive a snapshot that is not newer than last_processed
StaleSnapshotArrives ==
    /\ dispatcher_pc = "recv"
    /\ depth_in # << >>
    /\ IsSnapshot(Head(depth_in))
    /\ last_processed_update_id # None
    /\ Head(depth_in).last_update_id <= unwrap(last_processed_update_id)

\* C8: handling a snapshot with last_update_id <= last_processed forwards nothing, leaves
\* last_processed and the buffer unchanged and readies no buffered update for forwarding
C8_StaleSnapshotDropped ==
    [][(StaleSnapshotArrives /\ received' # received) =>
          /\ forwarded' = forwarded
          /\ last_processed_update_id' = last_processed_update_id
          /\ buffer' = buffer
          /\ dispatcher_pc' = "recv"
          /\ frame' = NoFrame]_vars

\* a snapshot older than the first forwarded one was handled while an update was buffered
C8_Witness ==
    /\ dispatcher_pc = "recv"
    /\ Len(received) = 3
    /\ IsSnapshot(Last(received))
    /\ forwarded # << >>
    /\ Last(received).last_update_id < Sequence(forwarded[1])
    /\ DOMAIN buffer # {}

----------------------------------------------------------------------------
(* Reordered chains (SpecChain) *)

\* everything the producers had to send was handled
Quiescent ==
    /\ script = << >>
    /\ depth_in = << >>
    /\ dispatcher_pc = "recv"

\* C7: once a snapshot and every update of a contiguous chain that starts right after it were
\* handled, in whatever order the updates arrived, the snapshot was forwarded first and then
\* every update of the chain exactly once, in ascending order of u
C7_ChainForwardedInOrder ==
    Quiescent =>
        /\ Len(forwarded) = Len(received)
        /\ forwarded[1] = received[1]
        /\ {forwarded[i] : i \in 1..Len(forwarded)} = {received[i] : i \in 1..Len(received)}
        /\ \A i \in 2..Len(forwarded) :
              /\ IsUpdate(forwarded[i])
              /\ Sequence(forwarded[i - 1]) < Sequence(forwarded[i])

\* a chain of three updates arrived in descending order and was forwarded in ascending order
C7_Witness ==
    /\ Quiescent
    /\ Len(received) = 4
    /\ Len(forwarded) = 4
    /\ Sequence(received[2]) > Sequence(received[3])
    /\ Sequence(received[3]) > Sequence(received[4])
    /\ forwarded[2] = received[4]

----------------------------------------------------------------------------
(* A newer snapshot while updates are buffered (SpecResync) *)

\* the dispatcher is about to receive a snapshot that is newer than last_processed
FreshSnapshotArrives ==
    /\ dispatcher_pc = "recv"
    /\ depth_in # << >>
    /\ IsSnapshot(Head(depth_in))
    /\ last_processed_update_id # None
    /\ Head(depth_in).last_update_id > unwrap(last_processed_update_id)

\* the buffered keys above s, and the acceptance condition against s written out
KeysAbove(s) == {k \in DOMAIN buffer : k > s}
AcceptableAgainst(e, s) == e.first_update_id <= s + 1 /\ s + 1 < e.last_update_id

\* C9 as stated: after a newer snapshot s was handled, every buffered update with u > s that
\* satisfies the acceptance condition against s has been forwarded, so none is still buffered
C9_Original_AllAcceptableForwarded ==
    (/\ Quiescent
     /\ Len(received) >= 2
     /\ IsSnapshot(Last(received))
     /\ \E i \in 2..Len(forwarded) : forwarded[i] = Last(received)) =>
        \A k \in DOMAIN buffer : ~AcceptableAgainst(buffer[k], Sequence(Last(received)))

\* C9 amended: a snapshot with s > last_processed sets last_processed to s and is forwarded
\* without clearing the buffer; the drain that follows marks the buffered updates with u <= s
\* for removal and forwards, without a re-send, the lowest buffered update with u > s when it
\* satisfies the acceptance condition against s; a drain that ends leaves exactly the buffered
\* updates above last_processed
C9_FreshSnapshotKeepsBuffer ==
    [][/\ (FreshSnapshotArrives /\ received' # received) =>
             /\ last_processed_update_id' = Some(Head(depth_in).last_update_id)
             /\ dispatcher_pc' = "send_snapshot"
             /\ frame'.event = Head(depth_in)
             /\ buffer' = buffer
             /\ forwarded' = forwarded
       /\ (dispatcher_pc = "send_snapshot" /\ forwarded' # forwarded) =>
             LET s == frame.event.last_update_id
                 lowest == MinKey(KeysAbove(s))
             IN /\ forwarded' = Append(forwarded, frame.event)
                /\ dispatcher_pc' \in {"recv", "send_update", "panicked"}
                /\ dispatcher_pc' = "recv" =>
                      /\ buffer' = [k \in KeysAbove(s) |-> buffer[k]]
                      /\ last_processed_update_id' = Some(s)
                      /\ KeysAbove(s) # {} => ~AcceptableAgainst(buffer[lowest], s)
                /\ dispatcher_pc' = "send_update" =>
                      /\ KeysAbove(s) # {}
                      /\ AcceptableAgainst(buffer[lowest], s)
                      /\ frame'.event = buffer[lowest]
                      /\ buffer' = buffer
                      /\ \A k \in DOMAIN buffer : k <= s => k \in frame'.processed_keys
                /\ dispatcher_pc' = "panicked" =>
                      /\ overflow_checks
                      /\ DOMAIN buffer # {}
                      /\ s = U64Max \/ (KeysAbove(s) # {} /\ lowest = U64Max)
       /\ (dispatcher_pc = "send_update" /\ dispatcher_pc' = "recv") =>
             buffer' = [k \in KeysAbove(unwrap(last_processed_update_id)) |-> buffer[k]]
      ]_vars

\* a newer snapshot arrived while one update at or below it and one above it were buffered;
\* the one below is gone and the one above was forwarded after the snapshot
C9_Witness ==
    /\ Quiescent
    /\ Len(received) = 4
    /\ IsUpdate(received[2])
    /\ IsUpdate(received[3])
    /\ Len(forwarded) = 3
    /\ forwarded[2] = received[4]
    /\ forwarded[3] \in {received[2], received[3]}
    /\ \E i \in 2..3 : received[i].last_update_id <= Sequence(received[4])
    /\ DOMAIN buffer = {}

----------------------------------------------------------------------------
(* End-to-end consistency (SpecFeed) *)

RECURSIVE ApplyFrames(_, _, _, _)
\* the book after the single-mutation frames from..to of the feed are applied one by one
ApplyFrames(book, h, from, to) ==
    IF from > to THEN book
    ELSE ApplyFrames(bp_process_update(book, FeedUpdate(h, from, from)), h, from + 1, to)

\* C10: on a consistent feed every book state the book processor emits equals the exchange's
\* book at the sequence number of the forwarded event that produced it, be it the first
\* snapshot, an update or a resync snapshot; the state after a resync snapshot S' equals
\* the state after an earlier snapshot with every update up to S' applied to it
C10_EmittedBookIsReference ==
    /\ Len(emitted) <= Len(forwarded)
    /\ \A i \in 1..Len(emitted) : emitted[i] = reference.books[Sequence(forwarded[i])]
    /\ \A i \in 2..Len(emitted) : \A j \in 1..(i - 1) :
            IsSnapshot(forwarded[i]) /\ IsSnapshot(forwarded[j]) =>
                emitted[i] = ApplyFrames(emitted[j], reference.mutations,
                                         Sequence(forwarded[j]) + 1, Sequence(forwarded[i]))

\* a snapshot, an update that deletes a level and a resync snapshot were applied, each
\* changing the book
C10_Witness ==
    /\ Len(emitted) = 3
    /\ IsSnapshot(forwarded[1])
    /\ IsUpdate(forwarded[2])
    /\ IsSnapshot(forwarded[3])
    /\ \E i \in 1..Len(forwarded[2].bids) : forwarded[2].bids[i].quantity = 0
    /\ emitted[3] # emitted[2]
    /\ emitted[2] # emitted[1]

----------------------------------------------------------------------------
(* The book processor's output *)

RECURSIVE BookAfter(_)
\* the book the book processor holds after it handled the given events, one after the other
BookAfter(events) ==
    IF events = << >> THEN None
    ELSE bp_on_event(BookAfter(SubSeq(events, 1, Len(events) - 1)), Last(events)).order_book

\* the events the book processor has taken from depth_valid
TakenByBookProcessor == SubSeq(forwarded, 1, Len(forwarded) - Len(depth_valid))

\* C11: the book processor emits exactly one state for every event it has received on
\* depth_valid (the state of an event it is still sending excepted), the i-th state is the
\* book after the i-th event, and book_out carries the states in that order
C11_OneStatePerEventInOrder ==
    /\ Len(emitted) + (IF bp_pc = "send" THEN 1 ELSE 0) = Len(TakenByBookProcessor)
    /\ \A i \in 1..Len(emitted) : emitted[i] = unwrap(BookAfter(SubSeq(forwarded, 1, i)))
    /\ Len(book_out) <= Len(emitted)
    /\ book_out = SubSeq(emitted, Len(emitted) - Len(book_out) + 1, Len(emitted))

\* three events were received and three states emitted, the last equal to the first
C11_Witness ==
    /\ Len(TakenByBookProcessor) = 3
    /\ Len(emitted) = 3
    /\ emitted[2] # emitted[1]
    /\ emitted[3] = emitted[1]

\* the book processor is about to receive an update while it holds no book
UpdateBeforeSnapshot ==
    /\ bp_pc = "recv"
    /\ depth_valid # << >>
    /\ IsUpdate(Head(depth_valid))
    /\ order_book = None

\* C12: a book processor that receives an update while it holds no book panics, applies
\* nothing and emits no state, and a panicked book processor does nothing more
C12_UpdateBeforeSnapshotPanics ==
    [][/\ (UpdateBeforeSnapshot /\ Len(depth_valid') < Len(depth_valid)) =>
             /\ bp_pc' = "panicked"
             /\ order_book' = None
             /\ emitted' = emitted
             /\ book_out' = book_out
       /\ bp_pc = "panicked" =>
             /\ bp_pc' = "panicked"
             /\ order_book' = order_book
             /\ emitted' = emitted
             /\ depth_valid' = depth_valid
      ]_vars

\* the first depth event the source sent was an update with deltas; the book processor
\* took it and panicked without a state
C12_Witness ==
    /\ bp_pc = "panicked"
    /\ order_book = None
    /\ emitted = << >>
    /\ IsUpdate(Last(TakenByBookProcessor))
    /\ Last(TakenByBookProcessor).bids # << >>

\* C13: in the wired pipeline the book processor never receives an update while it holds
\* no book: the first event of depth_valid is a snapshot, and the book processor never panics
C13_NoUpdateBeforeSnapshot ==
    /\ ~UpdateBeforeSnapshot
    /\ order_book = None => (depth_valid = << >> \/ IsSnapshot(Head(depth_valid)))
    /\ bp_pc # "panicked"

\* updates reached the dispatcher before the first snapshot, and the book processor has
\* applied the snapshot and then an update
C13_Witness ==
    /\ Len(received) = 3
    /\ IsUpdate(received[1])
    /\ IsUpdate(received[2])
    /\ Len(emitted) = 2
    /\ IsSnapshot(forwarded[1])
    /\ IsUpdate(forwarded[2])

\* the book processor, holding a book, is about to receive an update
UpdateArrives ==
    /\ bp_pc = "recv"
    /\ depth_valid # << >>
    /\ IsUpdate(Head(depth_valid))
    /\ order_book # None

\* the prices a list of deltas names, and the quantity of the last delta that names p
Listed(entries) == {entries[i].price : i \in 1..Len(entries)}
LastListed(entries, p) ==
    LET at == {i \in 1..Len(entries) : entries[i].price = p}
    IN entries[CHOOSE i \in at : \A j \in at : j <= i].quantity

\* one side of the book after the deltas, every delta read on its own
EveryDeltaShows(before, after, entries) ==
    /\ \A i \in 1..Len(entries) :
          IF entries[i].quantity = 0
          THEN entries[i].price \notin DOMAIN after
          ELSE /\ entries[i].price \in DOMAIN after
               /\ after[entries[i].price] = entries[i].quantity
    /\ \A p \in (DOMAIN before \cup DOMAIN after) \ Listed(entries) :
          p \in DOMAIN before /\ p \in DOMAIN after /\ after[p] = before[p]

\* one side of the book after the deltas, the last delta of a level deciding
LastDeltaShows(before, after, entries) ==
    /\ \A p \in Listed(entries) :
          IF LastListed(entries, p) = 0
          THEN p \notin DOMAIN after
          ELSE p \in DOMAIN after /\ after[p] = LastListed(entries, p)
    /\ \A p \in (DOMAIN before \cup DOMAIN after) \ Listed(entries) :
          p \in DOMAIN before /\ p \in DOMAIN after /\ after[p] = before[p]

SnapshotArrives ==
    /\ bp_pc = "recv"
    /\ depth_valid # << >>
    /\ IsSnapshot(Head(depth_valid))
    /\ order_book # None

\* one side of a book holds exactly the listed levels, each with the quantity listed for it
\* (the last one, should the list name a level twice)
ExactlyListed(side, entries) ==
    /\ DOMAIN side = Listed(entries)
    /\ \A p \in Listed(entries) : side[p] = LastListed(entries, p)

PositiveQuantities(book) ==
    /\ \A p \in DOMAIN book.bids : book.bids[p] > 0
    /\ \A p \in DOMAIN book.asks : book.asks[p] > 0

\* C16: every book state the book processor emits holds only strictly positive quantities,
\* whatever snapshots and updates it receives
C16_EmittedQuantitiesPositive ==
    \A i \in 1..Len(emitted) : PositiveQuantities(emitted[i])

\* C17: a state emitted on book_out is a copy: whatever the book processor handles later, the
\* states emitted before stay as they were emitted, in the history and in the queue, and the
\* state emitted is the book as it is at the send
C17_EmittedStatesIndependent ==
    [][/\ Len(emitted') >= Len(emitted)
       /\ \A i \in 1..Len(emitted) : emitted'[i] = emitted[i]
       /\ emitted' # emitted =>
             /\ order_book # None
             /\ emitted' = Append(emitted, unwrap(order_book))
       /\ \/ book_out' = book_out
          \/ book_out # << >> /\ book_out' = Tail(book_out)
          \/ order_book # None /\ book_out' = Append(book_out, unwrap(order_book))
      ]_vars

\* two different states are queued on book_out, the older one differs from the live book
C17_Witness ==
    /\ Len(emitted) = 2
    /\ book_out = emitted
    /\ emitted[1] # emitted[2]
    /\ order_book = Some(emitted[2])
    /\ DOMAIN emitted[1].bids # {}

----------------------------------------------------------------------------
(* Closure (SpecClose) *)

\* a task that returned or panicked has dropped its channel ends
DispatcherEnded == dispatcher_pc \in {"done", "panicked"}
BookProcessorEnded == bp_pc \in {"done", "panicked"}

\* C18: once every sender of depth_in is dropped, and with the consumer of book_out receiving,
\* the dispatcher eventually ends, which closes depth_valid, and the book processor then
\* eventually ends, which closes book_out; a stage that returns has drained its input
C18_ClosurePropagates ==
    /\ (senders = 0) ~> DispatcherEnded
    /\ DispatcherEnded ~> BookProcessorEnded
    /\ [](dispatcher_pc = "done" => (senders = 0 /\ depth_in = << >>))
    /\ [](bp_pc = "done" => (DispatcherEnded /\ depth_valid = << >>))

\* the producers sent a snapshot and three updates and ended; both stages returned after
\* every event was forwarded and every state emitted
C18_Witness ==
    /\ senders = 0
    /\ dispatcher_pc = "done"
    /\ bp_pc = "done"
    /\ Len(received) = 4
    /\ Len(forwarded) = 4
    /\ Len(emitted) = 4

----------------------------------------------------------------------------
(* Backpressure (Spec) *)

\* the dispatcher is suspended in a send into depth_valid
DispatcherSending == dispatcher_pc \in {"send_snapshot", "send_update"}

\* the last n elements of a sequence
Suffix(seq, n) == SubSeq(seq, Len(seq) - n + 1, Len(seq))

\* C19: no queue holds more than its capacity; what the dispatcher sent is in depth_valid, in
\* order, until the book processor takes it, and what the book processor emitted is in
\* book_out, in order, until the consumer takes it; a stage suspended in a send keeps its
\* event until the queue takes it, then the event is appended, so nothing is dropped
C19_BackpressureNoLoss ==
    /\ [](/\ Len(depth_in) <= Capacity
          /\ Len(depth_valid) <= Capacity
          /\ Len(book_out) <= Capacity
          /\ Len(depth_valid) <= Len(forwarded)
          /\ depth_valid = Suffix(forwarded, Len(depth_valid))
          /\ Len(book_out) <= Len(emitted)
          /\ book_out = Suffix(emitted, Len(book_out))
          /\ Len(emitted) + (IF bp_pc = "send" THEN 1 ELSE 0) = Len(forwarded) - Len(depth_valid))
    /\ [][/\ DispatcherSending =>
                \/ /\ dispatcher_pc' = dispatcher_pc
                   /\ frame' = frame
                   /\ forwarded' = forwarded
                \/ /\ Len(depth_valid) < Capacity
                   /\ forwarded' = Append(forwarded, frame.event)
                   /\ depth_valid' = Append(depth_valid, frame.event)
          /\ bp_pc = "send" =>
                \/ /\ bp_pc' = bp_pc
                   /\ order_book' = order_book
                   /\ emitted' = emitted
                \/ /\ Len(book_out) < Capacity
                   /\ emitted' = Append(emitted, unwrap(order_book))
                   /\ book_out' = Append(book_out, unwrap(order_book))
         ]_vars

\* depth_valid is full and the dispatcher is suspended with a third event to forward
C19_Witness ==
    /\ Len(depth_valid) = Capacity
    /\ dispatcher_pc = "send_update"
    /\ frame.event \notin {forwarded[i] : i \in 1..Len(forwarded)}

----------------------------------------------------------------------------
(* Failures of the dispatcher (Spec) *)

\* C20: handling a snapshot or an update never fails in the dispatcher: it never enters a
\* panic state
C20_DispatcherNeverPanics == dispatcher_pc # "panicked"

----------------------------------------------------------------------------
(* Events of another kind (Spec) *)

\* the dispatcher takes an event that is neither a DepthUpdate nor a DepthSnapshot
NonDepthArrives ==
    /\ dispatcher_pc = "recv"
    /\ depth_in # << >>
    /\ ~IsUpdate(Head(depth_in))
    /\ ~IsSnapshot(Head(depth_in))
    /\ received' = Append(received, Head(depth_in))

\* C21: a TradeEvent or PriceUpdate the dispatcher receives is discarded: the step that takes it
\* forwards nothing, leaves last_processed_update_id and the buffer as they were and returns
\* to receiving with nothing to send; no event of another kind is ever forwarded
C21_NonDepthDiscarded ==
    /\ [][NonDepthArrives =>
              /\ forwarded' = forwarded
              /\ depth_valid' = depth_valid
              /\ last_processed_update_id' = last_processed_update_id
              /\ buffer' = buffer
              /\ dispatcher_pc' = "recv"
              /\ frame' = NoFrame]_vars
    /\ [](\A i \in 1..Len(forwarded) : IsUpdate(forwarded[i]) \/ IsSnapshot(forwarded[i]))

\* a TradeEvent or PriceUpdate was the last event taken, while a snapshot had set
\* last_processed_update_id and an update waited in the buffer
C21_Witness ==
    /\ received # << >>
    /\ Last(received) \in {TradeEvent, PriceUpdate}
    /\ dispatcher_pc = "recv"
    /\ last_processed_update_id # None
    /\ DOMAIN buffer # {}
    /\ Len(forwarded) = 1

\* C22: the book processor panics on every message it receives that is neither a DepthUpdate
\* nor a DepthSnapshot: once it has taken such a message its task has ended in a panic
C22_PanicsOnOtherMessage ==
    \A i \in 1..Len(TakenByBookProcessor) :
        (~IsUpdate(TakenByBookProcessor[i]) /\ ~IsSnapshot(TakenByBookProcessor[i]))
            => bp_pc = "panicked"

----------------------------------------------------------------------------
(* The boundary u == expected and the break of the drain (Spec) *)

\* the buffer holds an update that ends exactly at expected = last_processed_update_id + 1
StuckEntry ==
    /\ last_processed_update_id # None
    /\ unwrap(last_processed_update_id) < U64Max
    /\ (unwrap(last_processed_update_id) + 1) \in DOMAIN buffer

\* the dispatcher takes an update with U <= expected < u
AcceptableArrives ==
    /\ dispatcher_pc = "recv"
    /\ depth_in # << >>
    /\ IsUpdate(Head(depth_in))
    /\ Accepts(Head(depth_in), unwrap(last_processed_update_id) + 1)
    /\ received' = Append(received, Head(depth_in))

\* C23: an update with u = last_processed + 1 is not forwarded and stays in the buffer while
\* last_processed does not move; once an update with U <= expected < u arrives, that update is
\* forwarded, after which the entry that was stuck is stale and is removed
C23_StuckEntrySuperseded ==
    [][/\ (StuckEntry /\ last_processed_update_id' = last_processed_update_id) =>
             /\ (unwrap(last_processed_update_id) + 1) \in DOMAIN buffer'
             /\ buffer'[unwrap(last_processed_update_id) + 1] \notin
                    {forwarded'[i] : i \in (Len(forwarded) + 1)..Len(forwarded')}
       /\ (StuckEntry /\ AcceptableArrives) =>
             /\ dispatcher_pc' = "send_update"
             /\ frame'.event = Head(depth_in)
             /\ last_processed_update_id' = Some(Head(depth_in).last_update_id)
      ]_vars

\* the buffer, the keys still to visit, the captured last_processed_update_id and expected
\* with which the loop of process_buffer runs in the dispatcher's next step
ScanInput ==
    IF dispatcher_pc = "send_update"
    THEN [buf |-> buffer, keys |-> frame.keys, local_last |-> frame.local_last,
          expected |-> frame.expected_first_update_id]
    ELSE LET e == Head(depth_in)
             b == IF dispatcher_pc = "recv" /\ IsUpdate(e)
                  THEN [k \in DOMAIN buffer \cup {e.last_update_id} |->
                            IF k = e.last_update_id THEN e ELSE buffer[k]]
                  ELSE buffer
         IN [buf |-> b, keys |-> DOMAIN b,
             local_last |-> unwrap(last_processed_update_id),
             expected |-> unwrap(last_processed_update_id) + 1]

\* the dispatcher's step runs the loop: it takes an update or a stale snapshot while
\* last_processed_update_id is set, or it completes a send
ScanRuns ==
    \/ /\ dispatcher_pc = "recv"
       /\ depth_in # << >>
       /\ received' = Append(received, Head(depth_in))
       /\ last_processed_update_id # None
       /\ \/ IsUpdate(Head(depth_in))
          \/ /\ IsSnapshot(Head(depth_in))
             /\ Head(depth_in).last_update_id <= unwrap(last_processed_update_id)
    \/ /\ DispatcherSending
       /\ forwarded' = Append(forwarded, frame.event)

\* the keys the loop has yet to visit that are above the captured last_processed_update_id
NotStale(in) == {k \in in.keys : k > in.local_last}

\* C24: the scan of a drain stops at the first entry with u > last_processed that fails
\* U <= expected < u: the drain ends there, that entry and every entry with a larger key
\* stay in the buffer as they were, none of them is forwarded and last_processed does not move
C24_ScanStopsAtFirstFailure ==
    [][(/\ ScanRuns
        /\ NotStale(ScanInput) # {}
        /\ ~Accepts(ScanInput.buf[MinKey(NotStale(ScanInput))], ScanInput.expected)) =>
            /\ dispatcher_pc' = "recv"
            /\ last_processed_update_id' = last_processed_update_id
            /\ \A k \in NotStale(ScanInput) :
                   /\ k \in DOMAIN buffer'
                   /\ buffer'[k] = ScanInput.buf[k]
                   /\ ScanInput.buf[k] \notin
                          {forwarded'[i] : i \in (Len(forwarded) + 1)..Len(forwarded')}
      ]_vars

\* a drain has ended with two updates above last_processed in the buffer: the lower one fails
\* the acceptance condition and the higher one, which satisfies it, is held behind it
C24_Witness ==
    /\ dispatcher_pc = "recv"
    /\ last_processed_update_id # None
    /\ Len(received) = 3
    /\ \E k1 \in DOMAIN buffer : \E k2 \in DOMAIN buffer :
           /\ unwrap(last_processed_update_id) < k1
           /\ k1 < k2
           /\ ~Accepts(buffer[k1], unwrap(last_processed_update_id) + 1)
           /\ Accepts(buffer[k2], unwrap(last_processed_update_id) + 1)

----------------------------------------------------------------------------
(* What a finished drain leaves in the buffer (Spec) *)

\* the dispatcher is between two events: the handling of the last one, drain included, is over
HandlingFinished == dispatcher_pc \in {"recv", "done"}

\* C25 as stated: once an event is handled and last_processed = L is set, no buffered update
\* satisfies U <= L+1 < u
C25_Original_DrainComplete ==
    (HandlingFinished /\ last_processed_update_id # None) =>
        \A k \in DOMAIN buffer :
            ~AcceptableAgainst(buffer[k], unwrap(last_processed_update_id))

\* C25, amended: once an event is handled and last_processed = L is set, the buffered update
\* with the lowest last_update_id above L does not satisfy U <= L+1 < u
C25_LowestEntryNotAcceptable ==
    (HandlingFinished /\ last_processed_update_id # None) =>
        LET above == {k \in DOMAIN buffer : k > unwrap(last_processed_update_id)}
        IN above # {} =>
              ~AcceptableAgainst(buffer[MinKey(above)], unwrap(last_processed_update_id))

\* a drain forwarded the update that extended the stream and ended at an update that does not
C25_Witness ==
    /\ dispatcher_pc = "recv"
    /\ last_processed_update_id # None
    /\ Len(forwarded) = 2
    /\ IsUpdate(forwarded[2])
    /\ last_processed_update_id = Some(forwarded[2].last_update_id)
    /\ \E k \in DOMAIN buffer : k > unwrap(last_processed_update_id)

----------------------------------------------------------------------------
(* Overlapping updates (Spec) *)

\* the lowest entry the loop has yet to visit above the captured last_processed_update_id
LowestNotStale == ScanInput.buf[MinKey(NotStale(ScanInput))]

\* the loop runs and its lowest non-stale entry starts at or before last_processed and ends
\* beyond last_processed + 1
OverlappingIsLowest ==
    /\ ScanRuns
    /\ NotStale(ScanInput) # {}
    /\ LowestNotStale.first_update_id <= unwrap(last_processed_update_id)
    /\ unwrap(last_processed_update_id) + 1 < LowestNotStale.last_update_id

\* C26: an update with U <= last_processed and last_processed + 1 < u that is the lowest
\* non-stale entry of the buffer is accepted and forwarded by the drain: the dispatcher sets
\* last_processed to its u and sends it
C26_OverlappingUpdateForwarded ==
    [][OverlappingIsLowest =>
          /\ dispatcher_pc' = "send_update"
          /\ frame'.event = LowestNotStale
          /\ last_processed_update_id' = Some(LowestNotStale.last_update_id)
      ]_vars

----------------------------------------------------------------------------
(* Updates that cover one sequence number (Spec) *)

\* C27: every update the dispatcher forwards, or has accepted and is sending, has
\* first_update_id < last_update_id: an update with U = u is never forwarded
C27_NoSingleIdForwarded ==
    /\ \A i \in 1..Len(forwarded) :
           IsUpdate(forwarded[i]) => forwarded[i].first_update_id < forwarded[i].last_update_id
    /\ dispatcher_pc = "send_update" =>
           frame.event.first_update_id < frame.event.last_update_id

\* after a snapshot and a forwarded update, the update that covers exactly the next sequence
\* number was received and handled; it is in the buffer and was not forwarded
C27_Witness ==
    /\ dispatcher_pc = "recv"
    /\ Len(received) = 3
    /\ Len(forwarded) = 2
    /\ IsUpdate(forwarded[2])
    /\ IsUpdate(received[3])
    /\ received[3].first_update_id = received[3].last_update_id
    /\ received[3].last_update_id = forwarded[2].last_update_id + 1
    /\ received[3].last_update_id \in DOMAIN buffer

----------------------------------------------------------------------------
(* One buffered update per last_update_id (Spec) *)

\* the positions of `received` that hold an update ending at k
ReceivedWith(k) ==
    {j \in 1..Len(received) : IsUpdate(received[j]) /\ received[j].last_update_id = k}

\* the update ending at k that was received last
LatestWith(k) == received[CHOOSE j \in ReceivedWith(k) : \A i \in ReceivedWith(k) : i <= j]

\* C28: the buffer holds one entry per last_update_id, the update received last with that u;
\* an update the drain accepts is the one received last with its u, so of two updates with
\* the same u received before either is forwarded only the later one can be forwarded
C28_LaterUpdateReplaces ==
    /\ \A k \in DOMAIN buffer :
           /\ ReceivedWith(k) # {}
           /\ buffer[k] = LatestWith(k)
    /\ dispatcher_pc = "send_update" =>
           /\ ReceivedWith(frame.event.last_update_id) # {}
           /\ frame.event = LatestWith(frame.event.last_update_id)

\* two updates with the same u and different U were received before the first snapshot, each
\* of them acceptable after it; the one received second was forwarded
C28_Witness ==
    /\ Len(received) = 3
    /\ IsUpdate(received[1])
    /\ IsUpdate(received[2])
    /\ IsSnapshot(received[3])
    /\ received[1].last_update_id = received[2].last_update_id
    /\ received[1].first_update_id # received[2].first_update_id
    /\ Accepts(received[1], received[3].last_update_id + 1)
    /\ Accepts(received[2], received[3].last_update_id + 1)
    /\ forwarded = << received[3], received[2] >>

----------------------------------------------------------------------------
(* The size of the buffer (Spec) *)

\* C29: the reorder buffer never holds more updates than a fixed capacity, here the one
\* capacity the program has, that of its queues
C29_BufferBounded == Cardinality(DOMAIN buffer) <= Capacity

----------------------------------------------------------------------------
(* The keys of the buffer (Spec) *)

\* C30: once an event is handled and last_processed = L is set, every entry left in the
\* buffer has a key above L; in every state each entry is an update stored under its own
\* last_update_id
C30_BufferKeysAboveLast ==
    /\ (HandlingFinished /\ last_processed_update_id # None) =>
           \A k \in DOMAIN buffer : k > unwrap(last_processed_update_id)
    /\ \A k \in DOMAIN buffer : IsUpdate(buffer[k]) /\ buffer[k].last_update_id = k

\* two updates waited for the first snapshot; the drain that followed it removed the one
\* that ends at or below the snapshot without forwarding it and kept the one that ends above
C30_Witness ==
    /\ dispatcher_pc = "recv"
    /\ Len(received) = 3
    /\ IsUpdate(received[1])
    /\ IsUpdate(received[2])
    /\ IsSnapshot(received[3])
    /\ last_processed_update_id = Some(received[3].last_update_id)
    /\ forwarded = << received[3] >>
    /\ received[1].last_update_id <= received[3].last_update_id
    /\ received[1].last_update_id \notin DOMAIN buffer
    /\ received[2].last_update_id > received[3].last_update_id
    /\ received[2].last_update_id \in DOMAIN buffer

----------------------------------------------------------------------------
(* last_processed_update_id over a run (Spec) *)

\* C31: last_processed_update_id is unset until the first snapshot is forwarded (nothing is
\* forwarded while it is unset, and between events it is unset exactly when nothing was
\* forwarded); once set it is never unset and never decreases; between events it is the
\* sequence number of the event forwarded last
C31_LastProcessedTracksForwarded ==
    /\ [](last_processed_update_id = None => forwarded = << >>)
    /\ [](HandlingFinished => (last_processed_update_id = None <=> forwarded = << >>))
    /\ [](HandlingFinished /\ last_processed_update_id # None =>
              unwrap(last_processed_update_id) = Sequence(Last(forwarded)))
    /\ [][last_processed_update_id # None =>
              /\ last_processed_update_id' # None
              /\ unwrap(last_processed_update_id') >= unwrap(last_processed_update_id)]_vars

\* a snapshot and an update were forwarded, then an older snapshot was received and handled:
\* last_processed_update_id is still the update's u
C31_Witness ==
    /\ dispatcher_pc = "recv"
    /\ Len(received) = 3
    /\ IsSnapshot(received[3])
    /\ Len(forwarded) = 2
    /\ IsUpdate(forwarded[2])
    /\ received[3].last_update_id < forwarded[2].last_update_id
    /\ last_processed_update_id = Some(forwarded[2].last_update_id)

----------------------------------------------------------------------------
(* Progress of the pipeline (SpecLive) *)

\* the longest script of SpecLive
MaxScript == ChainLen + 1

\* C32: with the consumer of book_out receiving, every event placed in depth_in is eventually
\* taken by the dispatcher and every event the dispatcher forwarded eventually yields an
\* emitted book state
C32_PipelineProgress ==
    /\ \A n \in 1..MaxScript :
           (Len(received) + Len(depth_in) >= n) ~> (Len(received) >= n)
    /\ \A n \in 1..MaxScript :
           (Len(forwarded) >= n) ~> (Len(emitted) >= n)

----------------------------------------------------------------------------
(* order_book.rs: the order of PriceKey, and an OrderBook driven directly *)

\* prices of the order-book runs: 1..MaxPrice and one f64 that is not a number
MaxPrice == 3
\* `"NaN".parse::<f64>()` succeeds, so a DepthEntry can carry a price that is not a number
NaN == 0 - 1
F64Prices == (1..MaxPrice) \cup {NaN}

\* f64::partial_cmp: None when either operand is not a number
f64_partial_cmp(a, b) ==
    IF a = NaN \/ b = NaN THEN None
    ELSE IF a < b THEN Some("Less")
    ELSE IF a = b THEN Some("Equal")
    ELSE Some("Greater")

\* PriceKey::Bid(price) / PriceKey::Ask(price)
PriceKey(side, price) == [side |-> side, price |-> price]

\* PartialOrd for PriceKey, with the operands of the bid arm the wrong way round: bids ascending
partial_cmp_ascending(self, other) ==
    IF self.side = other.side THEN f64_partial_cmp(self.price, other.price) ELSE None

\* PartialOrd for PriceKey: bids compare descending, asks ascending, a bid and an ask do not compare
partial_cmp(self, other) ==
    IF self.side = "Bid" /\ other.side = "Bid" THEN f64_partial_cmp(other.price, self.price)
    ELSE IF self.side = "Ask" /\ other.side = "Ask" THEN f64_partial_cmp(self.price, other.price)
    ELSE None

\* Ord for PriceKey: `partial_cmp(..).unwrap_or(Ordering::Equal)`
cmp(self, other) ==
    LET o == partial_cmp(self, other) IN IF o = None THEN "Equal" ELSE unwrap(o)

\* A BTreeMap<PriceKey, f64> is the sequence of its (key, value) pairs in iteration order.
\* The maps of these runs hold at most MaxPrice + 1 keys, fewer than the 11 a node holds,
\* so every lookup is the linear search of one leaf.
EmptyBTreeMap == << >>

RECURSIVE search_node(_, _, _)
\* the search of a node from index i: keys the probe is Greater than are passed,
\* the first key it is Equal to is found, the first key it is Less than ends the search
search_node(m, key, i) ==
    IF i > Len(m) THEN [found |-> FALSE, idx |-> i]
    ELSE LET c == cmp(key, m[i].key)
         IN IF c = "Greater" THEN search_node(m, key, i + 1)
            ELSE [found |-> (c = "Equal"), idx |-> i]

\* BTreeMap::insert: an occupied entry keeps its key and takes the new value
btree_insert(m, key, value) ==
    LET r == search_node(m, key, 1)
    IN IF r.found THEN [m EXCEPT ![r.idx].value = value]
       ELSE SubSeq(m, 1, r.idx - 1) \o << [key |-> key, value |-> value] >> \o SubSeq(m, r.idx, Len(m))

\* BTreeMap::remove
btree_remove(m, key) ==
    LET r == search_node(m, key, 1)
    IN IF r.found THEN SubSeq(m, 1, r.idx - 1) \o SubSeq(m, r.idx + 1, Len(m)) ELSE m

RECURSIVE insert_entries(_, _, _)
\* `for entry in &snapshot.bids { bids.insert(PriceKey::Bid(entry.price), entry.quantity); }`
insert_entries(m, side, entries) ==
    IF entries = << >> THEN m
    ELSE insert_entries(btree_insert(m, PriceKey(side, Head(entries).price), Head(entries).quantity),
                        side, Tail(entries))

\* OrderBook::new
OrderBook_new(snapshot) ==
    [bids |-> insert_entries(EmptyBTreeMap, "Bid", snapshot.bids),
     asks |-> insert_entries(EmptyBTreeMap, "Ask", snapshot.asks)]

\* OrderBook::apply_update
OrderBook_apply_update(self, price_key, quantity) ==
    LET m == IF price_key.side = "Bid" THEN self.bids ELSE self.asks
        m2 == IF quantity = 0 THEN btree_remove(m, price_key) ELSE btree_insert(m, price_key, quantity)
    IN IF price_key.side = "Bid" THEN [self EXCEPT !.bids = m2] ELSE [self EXCEPT !.asks = m2]

\* the bid or ask lists of a snapshot: up to MaxEntries entries
PriceLists == EntryLists(F64Prices, MaxEntries)

\* a caller builds a book from a snapshot; a run follows this one book from its construction
Construct ==
    /\ op = None
    /\ \E b \in PriceLists, a \in PriceLists :
           /\ price_book' = OrderBook_new(DepthSnapshot(0, b, a))
           /\ op' = Some([kind |-> "new", bids |-> b, asks |-> a, key |-> PriceKey("Bid", 1), quantity |-> 0])
    /\ UNCHANGED << stream, trade_channel, price_channel, logger_pc, overflow_checks, senders, script, reference,
                    depth_in, received, last_processed_update_id, buffer, dispatcher_pc, frame,
                    depth_valid, forwarded, order_book, bp_pc, book_out, emitted >>

\* a caller applies one level to the book it built
Apply ==
    /\ op # None
    /\ \E side \in {"Bid", "Ask"}, p \in F64Prices, q \in 0..MaxQty :
           /\ price_book' = OrderBook_apply_update(price_book, PriceKey(side, p), q)
           /\ op' = Some([kind |-> "apply_update", bids |-> << >>, asks |-> << >>, key |-> PriceKey(side, p), quantity |-> q])
    /\ UNCHANGED << stream, trade_channel, price_channel, logger_pc, overflow_checks, senders, script, reference,
                    depth_in, received, last_processed_update_id, buffer, dispatcher_pc, frame,
                    depth_valid, forwarded, order_book, bp_pc, book_out, emitted >>

NextOrderBook ==
    \/ Construct
    \/ Apply

InitOrderBook ==
    /\ script = << >>
    /\ reference = NoReference
    /\ InitPipeline
    /\ ~overflow_checks

(* SpecOrderBook: an OrderBook on its own, built and updated by its caller *)
SpecOrderBook == InitOrderBook /\ [][NextOrderBook]_vars

----------------------------------------------------------------------------
(* C33: a book built from a snapshot holds every listed price, zero quantities included *)

\* the last operation was OrderBook::new
Constructed == op # None /\ unwrap(op).kind = "new"

\* the quantity of the last entry of the list that names the price
LastQuantity(entries, price) ==
    LET i == CHOOSE k \in DOMAIN entries :
                 /\ entries[k].price = price
                 /\ \A j \in DOMAIN entries : entries[j].price = price => j <= k
    IN entries[i].quantity

\* the map has the level (side, price) with this quantity
HasLevel(m, side, price, quantity) ==
    \E j \in DOMAIN m : m[j].key = PriceKey(side, price) /\ m[j].value = quantity

\* C33: right after OrderBook::new, every price listed in the snapshot's bids has an entry in
\* the bid map and every price listed in its asks has an entry in the ask map, each with the
\* quantity the snapshot lists for it (the last listing, when a price repeats), a quantity of
\* 0 stored as 0.
C33_SnapshotEntriesStored ==
    Constructed =>
        /\ \A i \in DOMAIN unwrap(op).bids :
               HasLevel(price_book.bids, "Bid", unwrap(op).bids[i].price,
                        LastQuantity(unwrap(op).bids, unwrap(op).bids[i].price))
        /\ \A i \in DOMAIN unwrap(op).asks :
               HasLevel(price_book.asks, "Ask", unwrap(op).asks[i].price,
                        LastQuantity(unwrap(op).asks, unwrap(op).asks[i].price))

----------------------------------------------------------------------------
(* C34: a zero quantity on an absent price changes nothing; a side never changes the other *)

\* the map holds a level at this key
Present(m, key) == \E j \in DOMAIN m : m[j].key = key

\* the map apply_update selects for the key
SideMap(b, key) == IF key.side = "Bid" THEN b.bids ELSE b.asks

\* this step is an apply_update call
ApplyStep == op # None /\ unwrap(op').kind = "apply_update"

\* C34: an apply_update with quantity 0 whose price is not a key of the selected map leaves
\* the bid map and the ask map as they were, and every apply_update leaves the map of the
\* other side as it was.
C34_AbsentZeroKeepsMaps ==
    [][ApplyStep =>
          /\ (unwrap(op').quantity = 0 /\ ~Present(SideMap(price_book, unwrap(op').key), unwrap(op').key))
                 => price_book' = price_book
          /\ unwrap(op').key.side = "Bid" => price_book'.asks = price_book.asks
          /\ unwrap(op').key.side = "Ask" => price_book'.bids = price_book.bids]_vars

----------------------------------------------------------------------------
(* C35: bids iterate in strictly descending, asks in strictly ascending price order *)

\* the prices of a map in iteration order
IterPrices(m) == [j \in DOMAIN m |-> m[j].key.price]

\* every earlier price of the sequence compares `c` with every later one
StrictlyOrdered(prices, c) ==
    \A i \in DOMAIN prices : \A j \in DOMAIN prices :
        i < j => f64_partial_cmp(prices[i], prices[j]) = Some(c)

\* C35: whatever snapshot the book was built from and whatever levels were applied to it, in
\* whatever order, iterating the bid map yields strictly descending prices and iterating the
\* ask map yields strictly ascending prices.
C35_SidesStrictlyOrdered ==
    /\ StrictlyOrdered(IterPrices(price_book.bids), "Greater")
    /\ StrictlyOrdered(IterPrices(price_book.asks), "Less")

\* three levels on each side, more than one snapshot list holds, so some were applied one by
\* one, the last of them the middle ask: both maps iterate in their own order
C35_Witness ==
    /\ op # None
    /\ unwrap(op).kind = "apply_update"
    /\ unwrap(op).key = PriceKey("Ask", 2)
    /\ IterPrices(price_book.bids) = << 3, 2, 1 >>
    /\ IterPrices(price_book.asks) = << 1, 2, 3 >>

----------------------------------------------------------------------------
(* market_event_stream.rs: one depth-update producer, session by session *)

\* the events the exchange's stream carries in these runs
StreamEvents == {DepthUpdate(0, 1, << >>, << >>), DepthUpdate(1, 2, << >>, << >>)}

\* the Err arm of run with `break` in place of the sleep: the task returns
session_error_returns(s, kind) ==
    [s EXCEPT !.pc = "done", !.event = None, !.error = Some(kind), !.failed = @ \cup {kind}]

\* run_session returned Err: run logs it and sleeps for reconnect_timeout
session_error(s, kind) ==
    [s EXCEPT !.pc = "sleep", !.event = None, !.error = Some(kind), !.failed = @ \cup {kind}]

\* a step of the stream that touches nothing but the stream
StreamStep(s) ==
    /\ stream' = s
    /\ UNCHANGED << price_book, op, trade_channel, price_channel, logger_pc, overflow_checks, senders, script,
                    reference, depth_in, received, last_processed_update_id, buffer, dispatcher_pc,
                    frame, depth_valid, forwarded, order_book, bp_pc, book_out, emitted >>

\* `connect_async(&self.url).await?` succeeds
StreamConnect ==
    /\ stream.pc = "connect"
    /\ StreamStep([stream EXCEPT !.pc = "read"])

\* `connect_async(&self.url).await?` fails
StreamConnectFails ==
    /\ stream.pc = "connect"
    /\ StreamStep(session_error(stream, "connect"))

\* a text message that `T::from_json` parses: on_message goes on to send the event
StreamText ==
    /\ stream.pc = "read"
    /\ \E e \in StreamEvents : StreamStep([stream EXCEPT !.pc = "send", !.event = Some(e)])

\* a text message that `T::from_json` rejects
StreamParseFails ==
    /\ stream.pc = "read"
    /\ StreamStep(session_error(stream, "parse"))

\* a ping that is answered, a close frame (on_close returns Ok), or a message of another kind
StreamIgnored ==
    /\ stream.pc = "read"
    /\ StreamStep(stream)

\* a ping whose pong cannot be written
StreamPongFails ==
    /\ stream.pc = "read"
    /\ StreamStep(session_error(stream, "pong"))

\* `Err(e) => { return Err(e.into()); }`: the connection broke
StreamNetworkError ==
    /\ stream.pc = "read"
    /\ StreamStep(session_error(stream, "network"))

\* the reader is exhausted: run_session returns Ok and run starts the next session at once
StreamEnd ==
    /\ stream.pc = "read"
    /\ StreamStep([stream EXCEPT !.pc = "connect"])

\* `self.event_queue.send(event.into_market_event()).await?`
StreamSend ==
    /\ stream.pc = "send"
    /\ IF DepthInClosed
       THEN /\ stream' = session_error(stream, "send")
            /\ UNCHANGED depth_in
       ELSE /\ Len(depth_in) < Capacity
            /\ depth_in' = Append(depth_in, unwrap(stream.event))
            /\ stream' = [stream EXCEPT !.pc = "read", !.event = None]
    /\ UNCHANGED << price_book, op, trade_channel, price_channel, logger_pc, overflow_checks, senders, script,
                    reference, received, last_processed_update_id, buffer, dispatcher_pc,
                    frame, depth_valid, forwarded, order_book, bp_pc, book_out, emitted >>

\* `sleep(Duration::from_millis(self.reconnect_timeout)).await` is over: the loop starts a session
StreamWake ==
    /\ stream.pc = "sleep"
    /\ StreamStep([stream EXCEPT !.pc = "connect", !.error = None])

\* the dispatcher takes an event out of depth_in
ReceiverTakes ==
    /\ ~DepthInClosed
    /\ depth_in # << >>
    /\ depth_in' = Tail(depth_in)
    /\ UNCHANGED << price_book, op, stream, trade_channel, price_channel, logger_pc, overflow_checks, senders,
                    script, reference, received, last_processed_update_id, buffer, dispatcher_pc,
                    frame, depth_valid, forwarded, order_book, bp_pc, book_out, emitted >>

\* the dispatcher's task ends in a panic and drops the receiver of depth_in
ReceiverEnds ==
    /\ ~DepthInClosed
    /\ dispatcher_pc' = "panicked"
    /\ UNCHANGED << price_book, op, stream, trade_channel, price_channel, logger_pc, overflow_checks, senders,
                    script, reference, depth_in, received, last_processed_update_id, buffer,
                    frame, depth_valid, forwarded, order_book, bp_pc, book_out, emitted >>

NextStream ==
    \/ StreamConnect
    \/ StreamConnectFails
    \/ StreamText
    \/ StreamParseFails
    \/ StreamIgnored
    \/ StreamPongFails
    \/ StreamNetworkError
    \/ StreamEnd
    \/ StreamSend
    \/ StreamWake
    \/ ReceiverTakes
    \/ ReceiverEnds

InitStream ==
    /\ script = << >>
    /\ reference = NoReference
    /\ InitPipeline

\* the timer of the sleep fires
FairStream == WF_vars(StreamWake)

(* SpecStream: one MarketEventStream against its exchange and the receiver of depth_in *)
SpecStream == InitStream /\ [][NextStream]_vars /\ FairStream

----------------------------------------------------------------------------
(* C36: a depth-update producer never ends and never drops its sender *)

\* run_session has just returned Err
SessionFails == stream.error = None /\ stream'.error # None

\* C36: the producer's task never returns, so the sender of depth_in it owns is never
\* dropped, whatever fails: a connection that cannot be made or breaks, a message that does
\* not parse, a pong that cannot be written, a send into a closed depth_in. Every session that
\* ends with an error puts run into its sleep of reconnect_timeout, the sleep leads nowhere
\* but to the next session, and the next session does begin.
C36_ProducerNeverStops ==
    /\ [](stream.pc # "done" /\ senders = 1)
    /\ [][SessionFails => stream'.pc = "sleep"]_vars
    /\ [][stream.pc = "sleep" => stream'.pc \in {"sleep", "connect"}]_vars
    /\ (stream.pc = "sleep" ~> stream.pc = "connect")

\* sessions have ended with each kind of error, and the producer is in a session again
C36_Witness ==
    /\ stream.failed = {"connect", "parse", "pong", "network", "send"}
    /\ stream.pc = "read"
    /\ senders = 1

----------------------------------------------------------------------------
(* market_event_logger.rs: the logger on its three channels *)

\* events each sender puts into its channel in one run
MaxSent == 2

\* what a channel may carry: the kind its branch prints, and another kind
LoggedEvents == {TradeEvent, PriceUpdate}

\* `recv()` returns None: every sender is dropped and the queue is drained
RecvNone(ch) == ch.closed /\ ch.queue = << >>
BookRecvNone == BookProcessorEnded /\ book_out = << >>

\* an `else` that runs as soon as one branch of the select is disabled
select_else_any(trade, price, book) == trade \/ price \/ book

\* tokio::select!: `else` runs when the pattern `Some(..)` of every branch has failed
select_else(trade, price, book) == trade /\ price /\ book

\* a branch of the select takes the head of its channel; the match prints the expected kind
take_event(ch, kind) ==
    [ch EXCEPT !.queue = Tail(@), !.taken = @ + 1,
               !.logged = IF Head(ch.queue).type = kind THEN @ + 1 ELSE @]

\* the trade stream sends an event
TradeSend ==
    /\ logger_pc = "select"
    /\ ~trade_channel.closed
    /\ Len(trade_channel.queue) < Capacity
    /\ trade_channel.taken + Len(trade_channel.queue) < MaxSent
    /\ \E e \in LoggedEvents : trade_channel' = [trade_channel EXCEPT !.queue = Append(@, e)]
    /\ UNCHANGED << price_book, op, stream, price_channel, logger_pc, overflow_checks, senders, script,
                    reference, depth_in, received, last_processed_update_id, buffer, dispatcher_pc,
                    frame, depth_valid, forwarded, order_book, bp_pc, book_out, emitted >>

\* the price stream sends an event
PriceSend ==
    /\ logger_pc = "select"
    /\ ~price_channel.closed
    /\ Len(price_channel.queue) < Capacity
    /\ price_channel.taken + Len(price_channel.queue) < MaxSent
    /\ \E e \in LoggedEvents : price_channel' = [price_channel EXCEPT !.queue = Append(@, e)]
    /\ UNCHANGED << price_book, op, stream, trade_channel, logger_pc, overflow_checks, senders, script,
                    reference, depth_in, received, last_processed_update_id, buffer, dispatcher_pc,
                    frame, depth_valid, forwarded, order_book, bp_pc, book_out, emitted >>

\* the book processor sends a book
BookSend ==
    /\ logger_pc = "select"
    /\ ~BookProcessorEnded
    /\ Len(book_out) < Capacity
    /\ Len(emitted) < MaxSent
    /\ book_out' = Append(book_out, OrderBookNew(DepthSnapshot(0, << >>, << >>)))
    /\ emitted' = Append(emitted, OrderBookNew(DepthSnapshot(0, << >>, << >>)))
    /\ UNCHANGED << price_book, op, stream, trade_channel, price_channel, logger_pc, overflow_checks, senders,
                    script, reference, depth_in, received, last_processed_update_id, buffer,
                    dispatcher_pc, frame, depth_valid, forwarded, order_book, bp_pc >>

\* every sender of the trade channel is dropped
TradeClose ==
    /\ ~trade_channel.closed
    /\ trade_channel' = [trade_channel EXCEPT !.closed = TRUE]
    /\ UNCHANGED << price_book, op, stream, price_channel, logger_pc, overflow_checks, senders, script,
                    reference, depth_in, received, last_processed_update_id, buffer, dispatcher_pc,
                    frame, depth_valid, forwarded, order_book, bp_pc, book_out, emitted >>

\* every sender of the price channel is dropped
PriceClose ==
    /\ ~price_channel.closed
    /\ price_channel' = [price_channel EXCEPT !.closed = TRUE]
    /\ UNCHANGED << price_book, op, stream, trade_channel, logger_pc, overflow_checks, senders, script,
                    reference, depth_in, received, last_processed_update_id, buffer, dispatcher_pc,
                    frame, depth_valid, forwarded, order_book, bp_pc, book_out, emitted >>

\* the book processor's task ends and drops the sender of book_out
BookClose ==
    /\ ~BookProcessorEnded
    /\ bp_pc' = "done"
    /\ UNCHANGED << price_book, op, stream, trade_channel, price_channel, logger_pc, overflow_checks, senders,
                    script, reference, depth_in, received, last_processed_update_id, buffer,
                    dispatcher_pc, frame, depth_valid, forwarded, order_book, book_out, emitted >>

\* `Some(event) = self.trade_channel.recv() => { match event { .. } }`
LoggerRecvTrade ==
    /\ logger_pc = "select"
    /\ trade_channel.queue # << >>
    /\ trade_channel' = take_event(trade_channel, "TradeEvent")
    /\ UNCHANGED << price_book, op, stream, price_channel, logger_pc, overflow_checks, senders, script,
                    reference, depth_in, received, last_processed_update_id, buffer, dispatcher_pc,
                    frame, depth_valid, forwarded, order_book, bp_pc, book_out, emitted >>

\* `Some(event) = self.price_channel.recv() => { match event { .. } }`
LoggerRecvPrice ==
    /\ logger_pc = "select"
    /\ price_channel.queue # << >>
    /\ price_channel' = take_event(price_channel, "PriceUpdate")
    /\ UNCHANGED << price_book, op, stream, trade_channel, logger_pc, overflow_checks, senders, script,
                    reference, depth_in, received, last_processed_update_id, buffer, dispatcher_pc,
                    frame, depth_valid, forwarded, order_book, bp_pc, book_out, emitted >>

\* `else => break`, then `return`
LoggerBreak ==
    /\ logger_pc = "select"
    /\ select_else(RecvNone(trade_channel), RecvNone(price_channel), BookRecvNone)
    /\ logger_pc' = "done"
    /\ UNCHANGED << price_book, op, stream, trade_channel, price_channel, overflow_checks, senders, script,
                    reference, depth_in, received, last_processed_update_id, buffer, dispatcher_pc,
                    frame, depth_valid, forwarded, order_book, bp_pc, book_out, emitted >>

NextLogger ==
    \/ TradeSend
    \/ PriceSend
    \/ BookSend
    \/ TradeClose
    \/ PriceClose
    \/ BookClose
    \/ LoggerRecvTrade
    \/ LoggerRecvPrice
    \/ LoggerRecv
    \/ LoggerBreak

InitLogger ==
    /\ script = << >>
    /\ reference = NoReference
    /\ InitPipeline
    /\ ~overflow_checks

\* the logger's task is scheduled, and its select polls its branches in random order, so a
\* branch that stays ready is taken
FairLogger ==
    /\ WF_vars(LoggerRecvTrade)
    /\ WF_vars(LoggerRecvPrice)
    /\ WF_vars(LoggerRecv)
    /\ WF_vars(LoggerBreak)

(* SpecLogger: the logger with senders that send and drop in any order *)
SpecLogger == InitLogger /\ [][NextLogger]_vars /\ FairLogger

----------------------------------------------------------------------------
(* C37: the logger consumes every open channel and ends exactly when all three are closed *)

AllClosedAndDrained == RecvNone(trade_channel) /\ RecvNone(price_channel) /\ BookRecvNone

\* books the logger took out of book_out
BooksTaken == Len(emitted) - Len(book_out)

\* C37: the logger has ended only if all three channels are closed and drained, and once they
\* are it does end; until then every event put into the trade channel, the price channel or
\* book_out is eventually taken by the logger, whichever of the other channels are closed.
C37_LoggerRunsUntilAllClosed ==
    /\ [](logger_pc = "done" => AllClosedAndDrained)
    /\ (AllClosedAndDrained ~> logger_pc = "done")
    /\ \A n \in 1..MaxSent :
           /\ (trade_channel.taken + Len(trade_channel.queue) >= n) ~> (trade_channel.taken >= n)
           /\ (price_channel.taken + Len(price_channel.queue) >= n) ~> (price_channel.taken >= n)
           /\ (Len(emitted) >= n) ~> (BooksTaken >= n)

\* the trade and the price channel are closed and drained, a book is waiting, and the logger
\* is still in its select
C37_Witness ==
    /\ logger_pc = "select"
    /\ RecvNone(trade_channel)
    /\ RecvNone(price_channel)
    /\ trade_channel.logged > 0
    /\ book_out # << >>

----------------------------------------------------------------------------
(* C38: a drain with last_processed_update_id at u64::MAX (Spec) *)

\* process_buffer starts with last_processed_update_id at u64::MAX and a buffered entry:
\* an update arrives while the id is u64::MAX, or the send of a snapshot with that id completes
DrainAtMax ==
    \/ /\ dispatcher_pc = "recv"
       /\ depth_in # << >>
       /\ IsUpdate(Head(depth_in))
       /\ last_processed_update_id = Some(U64Max)
       /\ received' = Append(received, Head(depth_in))
    \/ /\ dispatcher_pc = "send_snapshot"
       /\ last_processed_update_id = Some(U64Max)
       /\ buffer # EmptyMap
       /\ depth_valid' = Append(depth_valid, frame.event)

\* C38: a drain that starts with last_processed_update_id at u64::MAX takes no update for
\* forwarding, in either build; where `last_processed + 1` wraps around, the drain treats
\* every buffered entry as stale, leaves the buffer empty and returns to receiving.
C38_DrainAtMaxForwardsNothing ==
    [][DrainAtMax =>
          /\ dispatcher_pc' # "send_update"
          /\ \A i \in (DOMAIN forwarded') \ (DOMAIN forwarded) : ~IsUpdate(forwarded'[i])
          /\ last_processed_update_id' = Some(U64Max)
          /\ ~overflow_checks => (buffer' = EmptyMap /\ dispatcher_pc' = "recv")]_vars

\* in the wrapping build an update that starts at 0 was buffered, then a snapshot at u64::MAX
\* was forwarded: the drain emptied the buffer and only the snapshot was forwarded
C38_Witness ==
    /\ ~overflow_checks
    /\ Len(received) = 2
    /\ IsUpdate(received[1])
    /\ received[1].first_update_id = 0
    /\ received[2] = DepthSnapshot(U64Max, << >>, << >>)
    /\ forwarded = << DepthSnapshot(U64Max, << >>, << >>) >>
    /\ buffer = EmptyMap
    /\ dispatcher_pc = "recv"

====
